---- MODULE Spec2Model ----
(***************************************************************************)
(* Cache-aside read/write coordination of examples/fastapi-cicd/app.py:    *)
(* the items table (durable store), the Redis cache, and the handlers      *)
(* get_items, get_item and create_item.                                    *)
(*                                                                         *)
(* Spec      runs every handler as one atomic step (completed,             *)
(*           non-overlapping requests), with cache and store faults and    *)
(*           corruption of stored cache values, within one expiry window.  *)
(* SpecTTL   the same requests while time passes and cache keys expire.    *)
(* SpecConc  interleaves the handlers' awaits of concurrent requests.      *)
(***************************************************************************)
EXTENDS Integers, Sequences, FiniteSets, TLC

VARIABLES
    store,        \* rows of table "items", in the order the database scans them
    nextId,       \* next value of the primary-key sequence
    cache,        \* Redis: live key -> [val, exp, asOf]
    now,          \* wall clock, seconds
    resp,         \* the request that has just completed: its response and what it did
    missedInval,  \* TRUE iff the last committed create did not finish its invalidation
    reqs,         \* SpecConc: the requests in flight, slot -> frame
    app           \* the example program the run exercises

vars == <<store, nextId, cache, now, resp, missedInval, reqs, app>>

(***************************************************************************)
(* Bounds of the model                                                     *)
(***************************************************************************)
MaxItems == 2
MaxTicks == 2
MaxReqs == 2

Names == {"A", "B"}

(***************************************************************************)
(* Program constants                                                       *)
(***************************************************************************)
DefaultSkip == 0
DefaultLimit == 100
ItemsTTL == 300
ItemTTL == 600

\* the query descriptors <<skip, limit>> requested: the default page and a narrow one
Pages == {<<DefaultSkip, DefaultLimit>>, <<1, 1>>}
Ids == 1..(MaxItems + 1)
TickSeconds == ItemsTTL

Min(a, b) == IF a < b THEN a ELSE b

(***************************************************************************)
(* Cache keys                                                              *)
(***************************************************************************)
\* f"items:{skip}:{limit}"
ItemsKey(skip, limit) == <<"items", ":", skip, ":", limit>>

\* f"item:{item_id}"
ItemKey(item_id) == <<"item", ":", item_id>>

\* mutant: the glob is written "item:*"
ItemsPattern_Typo == <<"item", ":", "*">>

\* the glob given to redis_client.keys
ItemsPattern == <<"items", ":", "*">>

\* glob match of a pattern "<literal>*"
GlobMatch(pattern, key) ==
    LET n == Len(pattern) - 1
    IN  /\ Len(key) >= n
        /\ \A i \in 1..n : key[i] = pattern[i]

(***************************************************************************)
(* Serialisation of responses into cache values and back                   *)
(***************************************************************************)
None == [fmt |-> "none", t |-> "none", v |-> <<>>]

\* a stored value that is no JSON text
Garbage == [fmt |-> "garbage", t |-> "none", v |-> <<>>]

\* JSON text of an object that lacks ItemResponse's required fields
BadShape == [fmt |-> "json", t |-> "dict", v |-> <<[id |-> 0]>>]

FieldNames == {"id", "name", "created_at"}

\* datetime -> ISO 8601 string (model_dump(mode='json'))
IsoFormat(ts) == <<"iso", ts>>

\* ISO 8601 string -> datetime (pydantic's datetime parsing)
ParseIso(s) == s[2]

\* ItemResponse.model_validate(row): the response fields of a row
ModelValidate(row) ==
    [id |-> row.id, name |-> row.name, created_at |-> row.created_at]

\* item.model_dump(mode='json')
ModelDumpJson(item) ==
    [id |-> item.id, name |-> item.name, created_at |-> IsoFormat(item.created_at)]

\* json.dumps of a list of dumped items
DumpItems(items) ==
    [fmt |-> "json", t |-> "list",
     v |-> [i \in 1..Len(items) |-> ModelDumpJson(items[i])]]

\* json.dumps of one dumped item
DumpItem(item) == [fmt |-> "json", t |-> "dict", v |-> <<ModelDumpJson(item)>>]

\* json.loads(text) does not raise
JsonLoadsOk(text) == text.fmt = "json"

\* ItemResponse(**d) does not raise
ItemResponseOk(d) == DOMAIN d = FieldNames

\* ItemResponse(**d)
ItemResponse(d) ==
    [id |-> d.id, name |-> d.name, created_at |-> ParseIso(d.created_at)]

\* [ItemResponse(**item) for item in json.loads(text)] does not raise:
\* a list of well-shaped objects, or an object without keys (nothing to iterate)
LoadItemsOk(text) ==
    /\ JsonLoadsOk(text)
    /\ \/ text.t = "list" /\ \A i \in 1..Len(text.v) : ItemResponseOk(text.v[i])
       \/ text.t = "dict" /\ DOMAIN text.v[1] = {}

LoadItems(text) ==
    IF text.t = "list"
    THEN [i \in 1..Len(text.v) |-> ItemResponse(text.v[i])]
    ELSE <<>>

\* ItemResponse(**json.loads(text)) does not raise
LoadItemOk(text) ==
    /\ JsonLoadsOk(text)
    /\ text.t = "dict"
    /\ ItemResponseOk(text.v[1])

LoadItem(text) == ItemResponse(text.v[1])

(***************************************************************************)
(* Redis client                                                            *)
(***************************************************************************)
EmptyCache == [k \in {} |-> None]

RedisGet(c, key) == IF key \in DOMAIN c THEN c[key].val ELSE None

\* `if cached_items:`
Truthy(val) == val # None

RedisSetex(c, key, ttl, val, t, asOf) ==
    [k \in DOMAIN c \cup {key} |->
        IF k = key THEN [val |-> val, exp |-> t + ttl, asOf |-> asOf] ELSE c[k]]

RedisKeys(c, pattern) == {k \in DOMAIN c : GlobMatch(pattern, k)}

RedisDelete(c, ks) == [k \in DOMAIN c \ ks |-> c[k]]

\* Redis drops a key when its time to live has run out
Expire(c, t) == [k \in {x \in DOMAIN c : c[x].exp > t} |-> c[k]]

(***************************************************************************)
(* The items table                                                         *)
(***************************************************************************)
\* ORDER BY created_at DESC: the k-th row is the one with k - 1 rows before
\* it: those created after it and, of the rows with its own created_at (which
\* the query leaves unordered), those the database scans first
OrderByCreatedAtDesc(st) ==
    [k \in 1..Len(st) |->
        st[CHOOSE i \in 1..Len(st) :
              Cardinality({j \in 1..Len(st) :
                              \/ st[j].created_at > st[i].created_at
                              \/ st[j].created_at = st[i].created_at /\ j < i})
                 = k - 1]]

\* mutant: the query orders by created_at ascending
SelectItems_Asc(st, skip, limit) ==
    LET o == OrderByCreatedAtDesc(st)
        r == [k \in 1..Len(o) |-> o[Len(o) + 1 - k]]
    IN  SubSeq(r, skip + 1, Min(Len(r), skip + limit))

\* select(ItemModel).offset(skip).limit(limit).order_by(created_at.desc())
SelectItems(st, skip, limit) ==
    LET o == OrderByCreatedAtDesc(st)
    IN  SubSeq(o, skip + 1, Min(Len(o), skip + limit))

\* select(ItemModel).where(ItemModel.id == item_id), scalar_one_or_none
SelectItem(st, item_id) ==
    SelectSeq(st, LAMBDA row : row.id = item_id)

\* created_at of the row inserted last (server_default=func.now())
LastCreatedAt(st) == IF st = <<>> THEN 0 ELSE st[Len(st)].created_at

(***************************************************************************)
(* A request in progress: its arguments, its position and what it did      *)
(***************************************************************************)
World(c, st, nid, missed) ==
    [cache |-> c, store |-> st, nextId |-> nid, missed |-> missed]

\* one call made to a collaborator: n is the expiry of a setex, the number of
\* keys of a keys or delete, 0 otherwise
Call(op, key, ok, n) == [op |-> op, key |-> key, ok |-> ok, n |-> n]

CacheOps == {"get", "setex", "keys", "delete"}
StoreOps == {"select", "commit", "refresh", "rollback"}

NewFrame(kind, skip, limit, item_id, name, pc) ==
    [kind |-> kind, skip |-> skip, limit |-> limit, id |-> item_id, name |-> name,
     pc |-> pc, status |-> 0, data |-> <<>>, asOf |-> 0,
     hit |-> FALSE, corrupt |-> FALSE, ops |-> <<>>, keys |-> {}]

Idle == NewFrame("idle", 0, 0, 0, "", "idle")

(***************************************************************************)
(* get_items                                                               *)
(***************************************************************************)
\* mutant: the cache get is not wrapped in try/except, so its exception
\* reaches the caller as a 500
GetItemsCacheGet_NoTry(w, fr, fault) ==
    LET key == ItemsKey(fr.skip, fr.limit)
        val == RedisGet(w.cache, key)
    IN  IF fault = "raise"
        THEN [w |-> w,
              fr |-> [fr EXCEPT !.ops = Append(@, Call("get", key, FALSE, 0)),
                                !.status = 500, !.pc = "done"]]
        ELSE IF Truthy(val) /\ LoadItemsOk(val)
        THEN [w |-> w,
              fr |-> [fr EXCEPT !.ops = Append(@, Call("get", key, TRUE, 0)),
                                !.hit = TRUE, !.status = 200,
                                !.data = LoadItems(val),
                                !.asOf = w.cache[key].asOf,
                                !.pc = "done"]]
        ELSE [w |-> w,
              fr |-> [fr EXCEPT !.ops = Append(@, Call("get", key, TRUE, 0)),
                                !.corrupt = Truthy(val),
                                !.pc = "items_select"]]

\* mutant: json.loads / ItemResponse(**item) sit outside the try, so a value
\* that cannot be deserialised reaches the caller as a 500
GetItemsCacheGet_LoadRaises(w, fr, fault) ==
    LET key == ItemsKey(fr.skip, fr.limit)
        val == RedisGet(w.cache, key)
    IN  IF fault = "raise"
        THEN [w |-> w,
              fr |-> [fr EXCEPT !.ops = Append(@, Call("get", key, FALSE, 0)),
                                !.pc = "items_select"]]
        ELSE IF Truthy(val) /\ LoadItemsOk(val)
        THEN [w |-> w,
              fr |-> [fr EXCEPT !.ops = Append(@, Call("get", key, TRUE, 0)),
                                !.hit = TRUE, !.status = 200,
                                !.data = LoadItems(val),
                                !.asOf = w.cache[key].asOf,
                                !.pc = "done"]]
        ELSE IF Truthy(val)
        THEN [w |-> w,
              fr |-> [fr EXCEPT !.ops = Append(@, Call("get", key, TRUE, 0)),
                                !.corrupt = TRUE,
                                !.status = 500, !.pc = "done"]]
        ELSE [w |-> w,
              fr |-> [fr EXCEPT !.ops = Append(@, Call("get", key, TRUE, 0)),
                                !.pc = "items_select"]]

\* try: cached_items = await redis_client.get(cache_key); if cached_items:
\*      return [ItemResponse(**item) for item in json.loads(cached_items)]
\* except Exception: log a warning and go on to the database
GetItemsCacheGet(w, fr, fault) ==
    LET key == ItemsKey(fr.skip, fr.limit)
        val == RedisGet(w.cache, key)
    IN  IF fault = "raise"
        THEN [w |-> w,
              fr |-> [fr EXCEPT !.ops = Append(@, Call("get", key, FALSE, 0)),
                                !.pc = "items_select"]]
        ELSE IF Truthy(val) /\ LoadItemsOk(val)
        THEN [w |-> w,
              fr |-> [fr EXCEPT !.ops = Append(@, Call("get", key, TRUE, 0)),
                                !.hit = TRUE, !.status = 200,
                                !.data = LoadItems(val),
                                !.asOf = w.cache[key].asOf,
                                !.pc = "done"]]
        ELSE [w |-> w,
              fr |-> [fr EXCEPT !.ops = Append(@, Call("get", key, TRUE, 0)),
                                !.corrupt = Truthy(val),
                                !.pc = "items_select"]]

\* result = await session.execute(select(ItemModel).offset(skip).limit(limit)...)
\* response_items = [ItemResponse.model_validate(item) for item in items]
\* except Exception: HTTPException(500)
GetItemsSelect(w, fr, t, fault) ==
    IF fault = "raise"
    THEN [w |-> w,
          fr |-> [fr EXCEPT !.ops = Append(@, Call("select", <<>>, FALSE, 0)),
                            !.status = 500, !.pc = "done"]]
    ELSE LET rows == SelectItems(w.store, fr.skip, fr.limit)
         IN  [w |-> w,
              fr |-> [fr EXCEPT !.ops = Append(@, Call("select", <<>>, TRUE, 0)),
                                !.data = [i \in 1..Len(rows) |-> ModelValidate(rows[i])],
                                !.asOf = t,
                                !.pc = "items_setex"]]

\* mutant: the list page is written with the item expiry
GetItemsSetex_ItemTTL(w, fr, t, fault) ==
    LET key == ItemsKey(fr.skip, fr.limit)
    IN  IF fault = "raise"
        THEN [w |-> w,
              fr |-> [fr EXCEPT !.ops = Append(@, Call("setex", key, FALSE, ItemTTL)),
                                !.status = 200, !.pc = "done"]]
        ELSE [w |-> [w EXCEPT !.cache =
                        RedisSetex(@, key, ItemTTL, DumpItems(fr.data), t, fr.asOf)],
              fr |-> [fr EXCEPT !.ops = Append(@, Call("setex", key, TRUE, ItemTTL)),
                                !.status = 200, !.pc = "done"]]

\* try: await redis_client.setex(cache_key, 300, json.dumps(cache_data))
\* except Exception: log a warning;  return response_items
\* mutant: the page is written under the key of (limit, skip)
GetItemsSetex_SwappedKey(w, fr, t, fault) ==
    LET key == ItemsKey(fr.limit, fr.skip)
    IN  IF fault = "raise"
        THEN [w |-> w,
              fr |-> [fr EXCEPT !.ops = Append(@, Call("setex", key, FALSE, ItemsTTL)),
                                !.status = 200, !.pc = "done"]]
        ELSE [w |-> [w EXCEPT !.cache =
                        RedisSetex(@, key, ItemsTTL, DumpItems(fr.data), t, fr.asOf)],
              fr |-> [fr EXCEPT !.ops = Append(@, Call("setex", key, TRUE, ItemsTTL)),
                                !.status = 200, !.pc = "done"]]

GetItemsSetex(w, fr, t, fault) ==
    LET key == ItemsKey(fr.skip, fr.limit)
    IN  IF fault = "raise"
        THEN [w |-> w,
              fr |-> [fr EXCEPT !.ops = Append(@, Call("setex", key, FALSE, ItemsTTL)),
                                !.status = 200, !.pc = "done"]]
        ELSE [w |-> [w EXCEPT !.cache =
                        RedisSetex(@, key, ItemsTTL, DumpItems(fr.data), t, fr.asOf)],
              fr |-> [fr EXCEPT !.ops = Append(@, Call("setex", key, TRUE, ItemsTTL)),
                                !.status = 200, !.pc = "done"]]

(***************************************************************************)
(* get_item                                                                *)
(***************************************************************************)
\* mutant: the hit branch lacks its return, so the handler goes on to the
\* database and rewrites the cache
GetItemCacheGet_NoReturn(w, fr, fault) ==
    LET key == ItemKey(fr.id)
        val == RedisGet(w.cache, key)
    IN  IF fault = "raise"
        THEN [w |-> w,
              fr |-> [fr EXCEPT !.ops = Append(@, Call("get", key, FALSE, 0)),
                                !.pc = "item_select"]]
        ELSE [w |-> w,
              fr |-> [fr EXCEPT !.ops = Append(@, Call("get", key, TRUE, 0)),
                                !.corrupt = Truthy(val) /\ ~LoadItemOk(val),
                                !.pc = "item_select"]]

\* try: cached_item = await redis_client.get(cache_key); if cached_item:
\*      return ItemResponse(**json.loads(cached_item))
\* except Exception: log a warning and go on to the database
GetItemCacheGet(w, fr, fault) ==
    LET key == ItemKey(fr.id)
        val == RedisGet(w.cache, key)
    IN  IF fault = "raise"
        THEN [w |-> w,
              fr |-> [fr EXCEPT !.ops = Append(@, Call("get", key, FALSE, 0)),
                                !.pc = "item_select"]]
        ELSE IF Truthy(val) /\ LoadItemOk(val)
        THEN [w |-> w,
              fr |-> [fr EXCEPT !.ops = Append(@, Call("get", key, TRUE, 0)),
                                !.hit = TRUE, !.status = 200,
                                !.data = <<LoadItem(val)>>,
                                !.asOf = w.cache[key].asOf,
                                !.pc = "done"]]
        ELSE [w |-> w,
              fr |-> [fr EXCEPT !.ops = Append(@, Call("get", key, TRUE, 0)),
                                !.corrupt = Truthy(val),
                                !.pc = "item_select"]]

\* item = result.scalar_one_or_none(); if not item: raise HTTPException(404)
\* except HTTPException: raise;  except Exception: HTTPException(500)
\* mutant: `except HTTPException: raise` is missing, so the 404 raised inside
\* the try block is caught by `except Exception` and turned into a 500
GetItemSelect_Catch404(w, fr, t, fault) ==
    IF fault = "raise"
    THEN [w |-> w,
          fr |-> [fr EXCEPT !.ops = Append(@, Call("select", <<>>, FALSE, 0)),
                            !.status = 500, !.pc = "done"]]
    ELSE LET rows == SelectItem(w.store, fr.id)
         IN  IF rows = <<>>
             THEN [w |-> w,
                   fr |-> [fr EXCEPT !.ops = Append(@, Call("select", <<>>, TRUE, 0)),
                                     !.status = 500, !.pc = "done"]]
             ELSE [w |-> w,
                   fr |-> [fr EXCEPT !.ops = Append(@, Call("select", <<>>, TRUE, 0)),
                                     !.data = <<ModelValidate(rows[1])>>,
                                     !.asOf = t,
                                     !.pc = "item_setex"]]

GetItemSelect(w, fr, t, fault) ==
    IF fault = "raise"
    THEN [w |-> w,
          fr |-> [fr EXCEPT !.ops = Append(@, Call("select", <<>>, FALSE, 0)),
                            !.status = 500, !.pc = "done"]]
    ELSE LET rows == SelectItem(w.store, fr.id)
         IN  IF rows = <<>>
             THEN [w |-> w,
                   fr |-> [fr EXCEPT !.ops = Append(@, Call("select", <<>>, TRUE, 0)),
                                     !.status = 404, !.pc = "done"]]
             ELSE [w |-> w,
                   fr |-> [fr EXCEPT !.ops = Append(@, Call("select", <<>>, TRUE, 0)),
                                     !.data = <<ModelValidate(rows[1])>>,
                                     !.asOf = t,
                                     !.pc = "item_setex"]]

\* mutant: the item is written with set, without an expiry
GetItemSetex_NoExpiry(w, fr, t, fault) ==
    LET key == ItemKey(fr.id)
    IN  IF fault = "raise"
        THEN [w |-> w,
              fr |-> [fr EXCEPT !.ops = Append(@, Call("setex", key, FALSE, ItemTTL)),
                                !.status = 200, !.pc = "done"]]
        ELSE [w |-> [w EXCEPT !.cache =
                        RedisSetex(@, key, 1000 * ItemTTL, DumpItem(fr.data[1]), t, fr.asOf)],
              fr |-> [fr EXCEPT !.ops = Append(@, Call("setex", key, TRUE, ItemTTL)),
                                !.status = 200, !.pc = "done"]]

\* try: await redis_client.setex(cache_key, 600, json.dumps(...))
\* except Exception: log a warning;  return response_item
GetItemSetex(w, fr, t, fault) ==
    LET key == ItemKey(fr.id)
    IN  IF fault = "raise"
        THEN [w |-> w,
              fr |-> [fr EXCEPT !.ops = Append(@, Call("setex", key, FALSE, ItemTTL)),
                                !.status = 200, !.pc = "done"]]
        ELSE [w |-> [w EXCEPT !.cache =
                        RedisSetex(@, key, ItemTTL, DumpItem(fr.data[1]), t, fr.asOf)],
              fr |-> [fr EXCEPT !.ops = Append(@, Call("setex", key, TRUE, ItemTTL)),
                                !.status = 200, !.pc = "done"]]

(***************************************************************************)
(* create_item                                                             *)
(***************************************************************************)
\* the row the database inserts: the next primary key, and created_at from
\* the server clock, which has advanced since the last insert
NewRow(w, name) ==
    [id |-> w.nextId, name |-> name, created_at |-> LastCreatedAt(w.store) + 1]

\* commit outcomes in which func.now() reads the same instant as for the row
\* inserted before: the new row is scanned after ("tie") or before
\* ("tie_first") the rows that share its created_at
TieOutcomes == {"tie", "tie_first"}

\* the table with `row` inserted, scanned before the rows of its created_at
InsertFirst(st, row) ==
    LET before == SelectSeq(st, LAMBDA r : r.created_at < row.created_at)
        tied   == SelectSeq(st, LAMBDA r : r.created_at >= row.created_at)
    IN  before \o <<row>> \o tied

\* mutant: no rollback, the row of the failed commit stays
CreateItemCommit_NoRollback(w, fr, fault) ==
    LET row == NewRow(w, fr.name)
        committed == [w EXCEPT !.store = Append(@, row), !.nextId = @ + 1]
    IN  IF fault = "raise"
        THEN [w |-> [committed EXCEPT !.missed = TRUE],
              fr |-> [fr EXCEPT !.ops = @ \o <<Call("commit", <<>>, FALSE, 0)>>,
                                !.status = 500, !.pc = "done"]]
        ELSE [w |-> [committed EXCEPT !.missed = TRUE],
              fr |-> [fr EXCEPT !.ops = @ \o <<Call("commit", <<>>, TRUE, 0),
                                               Call("refresh", <<>>, TRUE, 0)>>,
                                !.id = row.id,
                                !.data = <<ModelValidate(row)>>,
                                !.pc = "keys"]]

\* db_item = ItemModel(...); session.add(db_item)
\* await session.commit(); await session.refresh(db_item)
\* except Exception: await session.rollback(); HTTPException(500)
\* fault "raise": commit raises;  fault "late": refresh raises after the commit
CreateItemCommit(w, fr, fault) ==
    LET row == IF fault \in TieOutcomes
               THEN [NewRow(w, fr.name) EXCEPT !.created_at = LastCreatedAt(w.store)]
               ELSE NewRow(w, fr.name)
        committed == [w EXCEPT !.store = IF fault = "tie_first"
                                         THEN InsertFirst(@, row)
                                         ELSE Append(@, row),
                               !.nextId = @ + 1]
    IN  IF fault = "raise"
        THEN [w |-> w,
              fr |-> [fr EXCEPT !.ops = @ \o <<Call("commit", <<>>, FALSE, 0),
                                               Call("rollback", <<>>, TRUE, 0)>>,
                                !.status = 500, !.pc = "done"]]
        ELSE IF fault = "late"
        THEN [w |-> [committed EXCEPT !.missed = TRUE],
              fr |-> [fr EXCEPT !.ops = @ \o <<Call("commit", <<>>, TRUE, 0),
                                               Call("refresh", <<>>, FALSE, 0),
                                               Call("rollback", <<>>, TRUE, 0)>>,
                                !.status = 500, !.pc = "done"]]
        ELSE [w |-> [committed EXCEPT !.missed = TRUE],
              fr |-> [fr EXCEPT !.ops = @ \o <<Call("commit", <<>>, TRUE, 0),
                                               Call("refresh", <<>>, TRUE, 0)>>,
                                !.id = row.id,
                                !.data = <<ModelValidate(row)>>,
                                !.pc = "keys"]]

\* mutant: the `if keys:` guard is missing, delete is called with no key
CreateItemKeys_NoGuard(w, fr, fault) ==
    LET keys == RedisKeys(w.cache, ItemsPattern)
    IN  IF fault = "raise"
        THEN [w |-> w,
              fr |-> [fr EXCEPT !.ops = Append(@, Call("keys", ItemsPattern, FALSE, 0)),
                                !.status = 201, !.pc = "done"]]
        ELSE [w |-> w,
              fr |-> [fr EXCEPT !.ops = Append(@, Call("keys", ItemsPattern, TRUE,
                                                       Cardinality(keys))),
                                !.keys = keys, !.pc = "delete"]]

\* try: keys = await redis_client.keys("items:*"); if keys: ...
\* except Exception: log a warning;  return ItemResponse.model_validate(db_item)
CreateItemKeys(w, fr, fault) ==
    LET keys == RedisKeys(w.cache, ItemsPattern)
    IN  IF fault = "raise"
        THEN [w |-> w,
              fr |-> [fr EXCEPT !.ops = Append(@, Call("keys", ItemsPattern, FALSE, 0)),
                                !.status = 201, !.pc = "done"]]
        ELSE IF keys = {}
        THEN [w |-> [w EXCEPT !.missed = FALSE],
              fr |-> [fr EXCEPT !.ops = Append(@, Call("keys", ItemsPattern, TRUE, 0)),
                                !.status = 201, !.pc = "done"]]
        ELSE [w |-> w,
              fr |-> [fr EXCEPT !.ops = Append(@, Call("keys", ItemsPattern, TRUE,
                                                       Cardinality(keys))),
                                !.keys = keys, !.pc = "delete"]]

\* mutant: the delete call is missing
CreateItemDelete_Forgotten(w, fr, fault) ==
    [w |-> [w EXCEPT !.missed = FALSE],
     fr |-> [fr EXCEPT !.status = 201, !.pc = "done"]]

\* await redis_client.delete(*keys)
\* except Exception: log a warning;  return ItemResponse.model_validate(db_item)
CreateItemDelete(w, fr, fault) ==
    IF fault = "raise"
    THEN [w |-> w,
          fr |-> [fr EXCEPT !.ops = Append(@, Call("delete", ItemsPattern, FALSE,
                                                   Cardinality(fr.keys))),
                            !.status = 201, !.pc = "done"]]
    ELSE [w |-> [w EXCEPT !.cache = RedisDelete(@, fr.keys), !.missed = FALSE],
          fr |-> [fr EXCEPT !.ops = Append(@, Call("delete", ItemsPattern, TRUE,
                                                   Cardinality(fr.keys))),
                            !.status = 201, !.pc = "done"]]

(***************************************************************************)
(* Running a handler                                                       *)
(***************************************************************************)
\* the handler's code from one await to the next
Step(w, fr, t, fault) ==
    CASE fr.pc = "items_get"    -> GetItemsCacheGet(w, fr, fault)
      [] fr.pc = "items_select" -> GetItemsSelect(w, fr, t, fault)
      [] fr.pc = "items_setex"  -> GetItemsSetex(w, fr, t, fault)
      [] fr.pc = "item_get"     -> GetItemCacheGet(w, fr, fault)
      [] fr.pc = "item_select"  -> GetItemSelect(w, fr, t, fault)
      [] fr.pc = "item_setex"   -> GetItemSetex(w, fr, t, fault)
      [] fr.pc = "commit"       -> CreateItemCommit(w, fr, fault)
      [] fr.pc = "keys"         -> CreateItemKeys(w, fr, fault)
      [] fr.pc = "delete"       -> CreateItemDelete(w, fr, fault)
      [] OTHER                  -> [w |-> w, fr |-> fr]

\* a handler from its first line to its response; f[i] is the outcome of the
\* i-th collaborator call it reaches
Run(w, fr, t, f) ==
    LET s1 == Step(w, fr, t, f[1])
        s2 == IF s1.fr.pc = "done" THEN s1 ELSE Step(s1.w, s1.fr, t, f[2])
        s3 == IF s2.fr.pc = "done" THEN s2 ELSE Step(s2.w, s2.fr, t, f[3])
    IN  s3

get_items(w, skip, limit, t, f) ==
    Run(w, NewFrame("get_items", skip, limit, 0, "", "items_get"), t, f)

get_item(w, item_id, t, f) ==
    Run(w, NewFrame("get_item", 0, 0, item_id, "", "item_get"), t, f)

create_item(w, name, t, f) ==
    Run(w, NewFrame("create_item", 0, 0, 0, name, "commit"), t, f)

\* what the caller receives, with the record of what the handler did
Respond(fr) ==
    [kind |-> fr.kind, skip |-> fr.skip, limit |-> fr.limit,
     id |-> fr.id, name |-> fr.name, status |-> fr.status,
     data |-> IF fr.status \in {200, 201} THEN fr.data ELSE <<>>,
     hit |-> fr.hit, corrupt |-> fr.corrupt,
     asOf |-> fr.asOf, ops |-> fr.ops]

NoResp == Respond(Idle)

Outcomes == {"ok", "raise"}
Faults == [1..3 -> Outcomes]
AllOk == [i \in 1..3 |-> "ok"]
AllRaise == [i \in 1..3 |-> "raise"]
\* create_item: the refresh after the commit raises
LateFaults == {[f EXCEPT ![1] = "late"] : f \in Faults}

TheWorld == World(cache, store, nextId, missedInval)

(***************************************************************************)
(* Spec: completed requests, one at a time                                 *)
(***************************************************************************)
Init ==
    /\ store = <<>>
    /\ nextId = 1
    /\ cache = EmptyCache
    /\ now = 0
    /\ resp = NoResp
    /\ missedInval = FALSE
    /\ reqs = [r \in 1..MaxReqs |-> Idle]
    /\ app = "fastapi-cicd"

\* a handler runs to its response; the next request is taken up once the
\* response has been delivered
Completed(r) ==
    /\ resp = NoResp
    /\ cache' = r.w.cache
    /\ store' = r.w.store
    /\ nextId' = r.w.nextId
    /\ missedInval' = r.w.missed
    /\ resp' = Respond(r.fr)
    /\ UNCHANGED <<now, reqs, app>>

\* GET /api/items?skip=&limit=
GetItems ==
    \E page \in Pages, f \in Faults :
        Completed(get_items(TheWorld, page[1], page[2], now, f))

\* GET /api/items/{item_id}
GetItem ==
    \E item_id \in Ids, f \in Faults :
        Completed(get_item(TheWorld, item_id, now, f))

\* POST /api/items
CreateItem ==
    \E name \in Names, f \in Faults :
        /\ Len(store) < MaxItems
        /\ Completed(create_item(TheWorld, name, now, f))

\* time passes; Redis drops the keys whose time to live has run out
Tick ==
    /\ resp = NoResp
    /\ now < MaxTicks * TickSeconds
    /\ now' = now + TickSeconds
    /\ cache' = Expire(cache, now')
    /\ UNCHANGED <<store, nextId, resp, missedInval, reqs, app>>

\* a stored cache value is damaged
Corrupt ==
    \E k \in DOMAIN cache, bad \in {Garbage, BadShape} :
        /\ resp = NoResp
        /\ cache[k].val \notin {Garbage, BadShape}
        /\ cache' = [cache EXCEPT ![k].val = bad]
        /\ UNCHANGED <<store, nextId, now, resp, missedInval, reqs, app>>

\* the caller has received the response
Deliver ==
    /\ resp # NoResp
    /\ resp' = NoResp
    /\ UNCHANGED <<store, nextId, cache, now, missedInval, reqs, app>>

Next == GetItems \/ GetItem \/ CreateItem \/ Deliver \/ Corrupt

Spec == Init /\ [][Next]_vars

(***************************************************************************)
(* SpecLate: Spec, and the refresh that follows a commit may raise         *)
(***************************************************************************)
\* POST /api/items, session.refresh raising after session.commit
CreateItemLate ==
    \E name \in Names, f \in LateFaults :
        /\ Len(store) < MaxItems
        /\ Completed(create_item(TheWorld, name, now, f))

NextLate == Next \/ CreateItemLate

SpecLate == Init /\ [][NextLate]_vars

(***************************************************************************)
(* SpecTTL: completed requests, one at a time, while time passes           *)
(***************************************************************************)
NextTTL == GetItems \/ GetItem \/ CreateItem \/ Deliver \/ Tick

SpecTTL == Init /\ [][NextTTL]_vars

(***************************************************************************)
(* Reading the record of a completed request                               *)
(***************************************************************************)
CallsOf(r, opset) == SelectSeq(r.ops, LAMBDA c : c.op \in opset)

CacheCalls(r) == CallsOf(r, CacheOps)
StoreCalls(r) == CallsOf(r, StoreOps)

AllOkCalls(calls) == \A i \in 1..Len(calls) : calls[i].ok
AllRaisedCalls(calls) == \A i \in 1..Len(calls) : ~calls[i].ok

IdsOf(items) == {items[i].id : i \in 1..Len(items)}

\* what the store alone answers
StoreItems(skip, limit) ==
    LET rows == SelectItems(store, skip, limit)
    IN  [i \in 1..Len(rows) |-> ModelValidate(rows[i])]

StoreItem(item_id) ==
    LET rows == SelectItem(store, item_id)
    IN  [i \in 1..Len(rows) |-> ModelValidate(rows[i])]

\* the same state with the cache flushed
Flushed == World(EmptyCache, store, nextId, missedInval)

CreateOk(r) ==
    /\ r.kind = "create_item"
    /\ r.status = 201
    /\ AllOkCalls(CacheCalls(r))

(***************************************************************************)
(* C1: after a create_item that answered 201 and whose cache calls         *)
(* succeeded, the next GET /api/items (skip 0, limit 100, fewer than 100   *)
(* items stored) answers 200 with a list that contains the created item,   *)
(* whatever had been cached before the create.                             *)
(***************************************************************************)
NextDefaultList == get_items(TheWorld, DefaultSkip, DefaultLimit, now, AllOk).fr

C1_CreateThenListContains ==
    /\ CreateOk(resp) => ~missedInval /\ store[Len(store)].id = resp.id
    /\ (store # <<>> /\ ~missedInval) =>
          /\ Len(store) < DefaultLimit
          /\ NextDefaultList.status = 200
          /\ store[Len(store)].id \in IdsOf(NextDefaultList.data)

\* a create that found cached pages and deleted them
C1_Witness ==
    /\ CreateOk(resp)
    /\ \E i \in 1..Len(resp.ops) :
          resp.ops[i].op = "delete" /\ resp.ops[i].ok /\ resp.ops[i].n >= 1

(***************************************************************************)
(* C3 as claimed: in every state reached by completed requests, every      *)
(* read answers with a warm cache what it answers after a cache flush.     *)
(***************************************************************************)
Transparent ==
    /\ \A page \in Pages :
          LET warm == get_items(TheWorld, page[1], page[2], now, AllOk).fr
              cold == get_items(Flushed, page[1], page[2], now, AllOk).fr
          IN  warm.status = cold.status /\ warm.data = cold.data
    /\ \A item_id \in Ids :
          LET warm == get_item(TheWorld, item_id, now, AllOk).fr
              cold == get_item(Flushed, item_id, now, AllOk).fr
          IN  warm.status = cold.status /\ warm.data = cold.data

C3_Claimed == Transparent

(***************************************************************************)
(* C3 as amended: whenever the most recent committed create_item has       *)
(* completed its "items:*" invalidation (or nothing was created yet),      *)
(* every read answers with a warm cache what it answers after a flush.     *)
(***************************************************************************)
C3_TransparentAfterInvalidation == ~missedInval => Transparent

\* a warm cache: a list page and an item are served from it
C3_Witness ==
    /\ ~missedInval
    /\ store # <<>>
    /\ get_items(TheWorld, DefaultSkip, DefaultLimit, now, AllOk).fr.hit
    /\ \E item_id \in Ids : get_item(TheWorld, item_id, now, AllOk).fr.hit

(***************************************************************************)
(* C4: a request all of whose cache calls raised, and whose store calls    *)
(* succeeded, answers what the store alone answers, as it does with a      *)
(* working (flushed) cache: 200 with the store's rows, 404 for a missing   *)
(* id, 201 with the created item.  No cache exception reaches the caller.  *)
(***************************************************************************)
CacheDown(r) ==
    /\ CacheCalls(r) # <<>>
    /\ AllRaisedCalls(CacheCalls(r))
    /\ AllOkCalls(StoreCalls(r))

C4_CacheDownSameAnswer ==
    CacheDown(resp) =>
        CASE resp.kind = "get_items" ->
                LET working == get_items(Flushed, resp.skip, resp.limit, now, AllOk).fr
                IN  /\ resp.status = 200
                    /\ resp.data = StoreItems(resp.skip, resp.limit)
                    /\ resp.status = working.status /\ resp.data = working.data
          [] resp.kind = "get_item" ->
                LET working == get_item(Flushed, resp.id, now, AllOk).fr
                IN  /\ IF StoreItem(resp.id) = <<>>
                       THEN resp.status = 404
                       ELSE resp.status = 200 /\ resp.data = StoreItem(resp.id)
                    /\ resp.status = working.status
                    /\ resp.status = 200 => resp.data = working.data
          [] resp.kind = "create_item" ->
                /\ resp.status = 201
                /\ resp.data = StoreItem(resp.id)
                /\ resp.data[1].name = resp.name
                /\ store[Len(store)].id = resp.id
          [] OTHER -> FALSE

\* each kind of request answered while the cache was down
C4_Witness ==
    /\ CacheDown(resp)
    /\ resp.kind = "get_items"
    /\ Len(CacheCalls(resp)) = 2
    /\ resp.status = 200
    /\ resp.data # <<>>

(***************************************************************************)
(* C5: when the commit of create_item raises, the session is rolled back,  *)
(* the caller receives 500, the store holds no new item and no cache call  *)
(* is made: store and cache are what they were.                            *)
(***************************************************************************)
CommitFailed(r) ==
    /\ r.kind = "create_item"
    /\ r.ops # <<>>
    /\ r.ops[1].op = "commit"
    /\ ~r.ops[1].ok

C5_CommitFailureTouchesNothing ==
    [][ (resp.kind = "idle" /\ CommitFailed(resp')) =>
            /\ resp'.status = 500
            /\ store' = store
            /\ cache' = cache
            /\ CacheCalls(resp') = <<>>
            /\ \E i \in 1..Len(resp'.ops) : resp'.ops[i].op = "rollback" ]_vars

\* a failed commit while pages and items were cached
C5_Witness ==
    /\ CommitFailed(resp)
    /\ resp.status = 500
    /\ RedisKeys(cache, ItemsPattern) # {}
    /\ store # <<>>

(***************************************************************************)
(* C6: when the cache holds a well-formed value under the request's key    *)
(* and the get returns it, get_items and get_item answer 200 with the      *)
(* deserialised cached snapshot, execute no store query, and leave cache   *)
(* and store unchanged.                                                    *)
(***************************************************************************)
Reads == {"get_items", "get_item"}

KeyOf(r) == IF r.kind = "get_items" THEN ItemsKey(r.skip, r.limit) ELSE ItemKey(r.id)

WellFormedAt(c, r) ==
    /\ KeyOf(r) \in DOMAIN c
    /\ IF r.kind = "get_items"
       THEN LoadItemsOk(c[KeyOf(r)].val)
       ELSE LoadItemOk(c[KeyOf(r)].val)

SnapshotAt(c, r) ==
    IF r.kind = "get_items"
    THEN LoadItems(c[KeyOf(r)].val)
    ELSE <<LoadItem(c[KeyOf(r)].val)>>

C6_HitTouchesNothing ==
    [][ (/\ resp.kind = "idle"
         /\ resp'.kind \in Reads
         /\ WellFormedAt(cache, resp')
         /\ resp'.ops[1].ok) =>
            /\ resp'.status = 200
            /\ resp'.data = SnapshotAt(cache, resp')
            /\ StoreCalls(resp') = <<>>
            /\ Len(resp'.ops) = 1
            /\ cache' = cache
            /\ store' = store ]_vars

\* hits on a list page and on an item, the page differing from the store
C6_Witness ==
    /\ resp.kind = "get_items"
    /\ resp.hit
    /\ resp.data # StoreItems(resp.skip, resp.limit)
    /\ \E item_id \in Ids : get_item(TheWorld, item_id, now, AllOk).fr.hit

(***************************************************************************)
(* C7: on a cache miss answered by the store, get_items makes exactly one  *)
(* cache get and one cache write, both under "items:{skip}:{limit}", the   *)
(* write carrying the serialised store result with an expiry of 300 s      *)
(* (get_item: "item:{id}", 600 s), and answers 200 with the freshly        *)
(* queried data, also when the cache write raises.                         *)
(***************************************************************************)
MissAnswered(r) ==
    /\ r.kind \in Reads
    /\ ~r.hit
    /\ AllOkCalls(StoreCalls(r))
    /\ r.kind = "get_item" => StoreItem(r.id) # <<>>

C7_MissQueriesAndCaches ==
    MissAnswered(resp) =>
        LET key == KeyOf(resp)
            ttl == IF resp.kind = "get_items" THEN 300 ELSE 600
            val == IF resp.kind = "get_items"
                   THEN DumpItems(resp.data) ELSE DumpItem(resp.data[1])
            cc  == CacheCalls(resp)
        IN  /\ Len(cc) = 2
            /\ cc[1].op = "get" /\ cc[1].key = key
            /\ cc[2].op = "setex" /\ cc[2].key = key /\ cc[2].n = ttl
            /\ Len(StoreCalls(resp)) = 1
            /\ resp.status = 200
            /\ resp.data = IF resp.kind = "get_items"
                           THEN StoreItems(resp.skip, resp.limit)
                           ELSE StoreItem(resp.id)
            /\ cc[2].ok =>
                  /\ key \in DOMAIN cache
                  /\ cache[key].val = val
                  /\ cache[key].exp = now + ttl

\* a miss whose cache write raised and that still answered with the rows
C7_Witness ==
    /\ MissAnswered(resp)
    /\ resp.kind = "get_items"
    /\ resp.data # <<>>
    /\ ~CacheCalls(resp)[2].ok
    /\ resp.status = 200

(***************************************************************************)
(* C8: every cache entry carries an expiry no later than its ceiling       *)
(* (300 s for list pages, 600 s for single items) after the store read it  *)
(* holds, and every 200 answer of get_items / get_item carries data read   *)
(* from the store no longer ago than that ceiling, also after a create     *)
(* whose invalidation failed.  Time advances between requests.             *)
(***************************************************************************)
Ceiling(key) == IF key[1] = "items" THEN 300 ELSE 600

C8_BoundedStaleness ==
    /\ \A k \in DOMAIN cache :
          /\ cache[k].exp > now
          /\ cache[k].exp <= cache[k].asOf + Ceiling(k)
    /\ (resp.kind \in Reads /\ resp.status = 200) =>
          /\ resp.asOf <= now
          /\ now - resp.asOf <= Ceiling(KeyOf(resp))

\* an aged item served from the cache while a stale list page is still alive
C8_Witness ==
    /\ resp.kind = "get_item"
    /\ resp.hit
    /\ now - resp.asOf = 300
    /\ missedInval

\* a list page served stale after a failed invalidation
C8_StaleServed ==
    /\ resp.kind = "get_items"
    /\ resp.hit
    /\ missedInval
    /\ resp.data # StoreItems(resp.skip, resp.limit)

(***************************************************************************)
(* C9 as claimed: a read that finds a cached value it cannot deserialise,  *)
(* and whose store query succeeds, answers 200 with the store's data and   *)
(* overwrites the entry with a fresh snapshot, so that the next read of    *)
(* the key is a hit with that data.                                        *)
(***************************************************************************)
CorruptRead(r) ==
    /\ r.kind \in Reads
    /\ r.corrupt
    /\ AllOkCalls(StoreCalls(r))

AnsweredFromStore(r) ==
    /\ r.status = 200
    /\ r.data = IF r.kind = "get_items"
                THEN StoreItems(r.skip, r.limit) ELSE StoreItem(r.id)

NextRead(r) ==
    IF r.kind = "get_items"
    THEN get_items(TheWorld, r.skip, r.limit, now, AllOk).fr
    ELSE get_item(TheWorld, r.id, now, AllOk).fr

Healed(r) ==
    /\ WellFormedAt(cache, r)
    /\ SnapshotAt(cache, r) = r.data
    /\ NextRead(r).hit
    /\ NextRead(r).data = r.data

CacheWritten(r) ==
    \E i \in 1..Len(r.ops) : r.ops[i].op = "setex" /\ r.ops[i].ok

C9_Claimed ==
    CorruptRead(resp) => AnsweredFromStore(resp) /\ Healed(resp)

(***************************************************************************)
(* C9 as amended: such a read answers 200 with the store's data; when its  *)
(* cache write succeeds the entry is overwritten with a fresh snapshot and *)
(* the next read of the key is a hit with that data; when the cache write  *)
(* raises the entry stays as it was and the next read is a miss again.     *)
(***************************************************************************)
C9_CorruptIsMissAndHealsOnWrite ==
    CorruptRead(resp) =>
        /\ AnsweredFromStore(resp)
        /\ IF CacheWritten(resp)
           THEN Healed(resp)
           ELSE /\ KeyOf(resp) \in DOMAIN cache
                /\ cache[KeyOf(resp)].val \in {Garbage, BadShape}
                /\ ~NextRead(resp).hit

\* both kinds of damage, on a list page and on an item, healed by the read
C9_Witness ==
    /\ CorruptRead(resp)
    /\ CacheWritten(resp)
    /\ resp.data # <<>>
    /\ Healed(resp)

(***************************************************************************)
(* C10: when no key matches "items:*", the invalidation of create_item     *)
(* issues no delete and raises nothing, and the create answers 201;        *)
(* running the invalidation twice leaves the cache as running it once.     *)
(***************************************************************************)
\* the invalidation block of create_item, run on cache c
Invalidation(c) ==
    Run(World(c, store, nextId, missedInval),
        NewFrame("create_item", 0, 0, 0, "", "keys"), now, AllOk)

NoKeyMatched(r) ==
    /\ r.kind = "create_item"
    /\ \E i \in 1..Len(r.ops) : r.ops[i].op = "keys" /\ r.ops[i].ok /\ r.ops[i].n = 0

C10_InvalidationIdempotent ==
    /\ NoKeyMatched(resp) =>
          /\ resp.status = 201
          /\ CallsOf(resp, {"delete"}) = <<>>
          /\ AllOkCalls(resp.ops)
    /\ LET once  == Invalidation(cache)
           twice == Invalidation(once.w.cache)
       IN  /\ RedisKeys(once.w.cache, ItemsPattern) = {}
           /\ twice.w.cache = once.w.cache
           /\ CallsOf(twice.fr, {"delete"}) = <<>>
           /\ twice.fr.status = 201

\* a create that found items cached but no list page
C10_Witness ==
    /\ NoKeyMatched(resp)
    /\ resp.status = 201
    /\ cache # EmptyCache

(***************************************************************************)
(* SpecConc: concurrent requests, interleaved at their awaits.  No fault,  *)
(* no expiry: only the interleaving of get_items and create_item.          *)
(***************************************************************************)
Slots == 1..MaxReqs

ConcStartGetItems(r) ==
    \E page \in Pages :
        /\ reqs[r] = Idle
        /\ reqs' = [reqs EXCEPT ![r] =
                       NewFrame("get_items", page[1], page[2], 0, "", "items_get")]
        /\ UNCHANGED <<store, nextId, cache, now, resp, missedInval, app>>

ConcStartCreateItem(r) ==
    \E name \in Names :
        /\ reqs[r] = Idle
        /\ Len(store) + Cardinality({x \in Slots : reqs[x].pc = "commit"}) < MaxItems
        /\ reqs' = [reqs EXCEPT ![r] = NewFrame("create_item", 0, 0, 0, name, "commit")]
        /\ UNCHANGED <<store, nextId, cache, now, resp, missedInval, app>>

\* request r runs from one await to the next
ConcStep(r) ==
    /\ reqs[r].pc \notin {"idle", "done"}
    /\ LET s == Step(TheWorld, reqs[r], now, "ok")
       IN  /\ cache' = s.w.cache
           /\ store' = s.w.store
           /\ nextId' = s.w.nextId
           /\ missedInval' = s.w.missed
           /\ reqs' = [reqs EXCEPT ![r] = s.fr]
    /\ UNCHANGED <<now, resp, app>>

\* request r sends its response
ConcFinish(r) ==
    /\ reqs[r].pc = "done"
    /\ reqs' = [reqs EXCEPT ![r] = Idle]
    /\ UNCHANGED <<store, nextId, cache, now, resp, missedInval, app>>

NextConc ==
    \E r \in Slots :
        ConcStartGetItems(r) \/ ConcStartCreateItem(r) \/ ConcStep(r) \/ ConcFinish(r)

SpecConc == Init /\ [][NextConc]_vars

(***************************************************************************)
(* C2: once every create_item has committed and finished its invalidation  *)
(* and no request is in flight, no "items:*" entry holds a page that omits *)
(* an item the store query for that page includes.                         *)
(***************************************************************************)
Quiescent == \A r \in Slots : reqs[r] = Idle

PageOmits(k) ==
    LET page == LoadItems(cache[k].val)
    IN  \E id \in IdsOf(StoreItems(k[3], k[5])) : id \notin IdsOf(page)

C2_NoStalePageWhenQuiescent ==
    Quiescent => \A k \in RedisKeys(cache, ItemsPattern) : ~PageOmits(k)

(***************************************************************************)
(* Task Manager (exercises/02-multi-stage-builds/app/main.py): the list    *)
(* `tasks` is held in store, task_counter + 1 in nextId.                   *)
(***************************************************************************)
Fields == {"title", "description", "completed"}

\* a request body: the fields it provides and their values
Body(has, title, description, completed) ==
    [has |-> has, title |-> title, description |-> description,
     completed |-> completed]

TaskCreate(title, description) == [title |-> title, description |-> description]

\* next((t for t in tasks if t.id == task_id), None), as the indexes found
FindTask(tasks, task_id) == {i \in 1..Len(tasks) : tasks[i].id = task_id}

tm_create_task(tasks, task_counter, task, t) ==
    LET new_task == [id |-> task_counter + 1, title |-> task.title,
                     description |-> task.description, completed |-> FALSE,
                     created_at |-> t]
    IN  [tasks |-> Append(tasks, new_task), task_counter |-> task_counter + 1,
         status |-> 201, data |-> <<new_task>>]

tm_get_task(tasks, task_counter, task_id) ==
    IF FindTask(tasks, task_id) = {}
    THEN [tasks |-> tasks, task_counter |-> task_counter,
          status |-> 404, data |-> <<>>]
    ELSE [tasks |-> tasks, task_counter |-> task_counter, status |-> 200,
          data |-> <<tasks[CHOOSE i \in FindTask(tasks, task_id) : TRUE]>>]

\* mutant: the fields are set on a copy of the task
tm_update_task_Copy(tasks, task_counter, task_id, task_update) ==
    IF FindTask(tasks, task_id) = {}
    THEN [tasks |-> tasks, task_counter |-> task_counter,
          status |-> 404, data |-> <<>>]
    ELSE LET i == CHOOSE j \in FindTask(tasks, task_id) : TRUE
             task == [f \in DOMAIN tasks[i] |->
                        IF f \in task_update.has THEN task_update[f]
                                                 ELSE tasks[i][f]]
         IN  [tasks |-> tasks, task_counter |-> task_counter,
              status |-> 200, data |-> <<task>>]

\* only the provided fields (is not None) are set, on the object in the list
tm_update_task(tasks, task_counter, task_id, task_update) ==
    IF FindTask(tasks, task_id) = {}
    THEN [tasks |-> tasks, task_counter |-> task_counter,
          status |-> 404, data |-> <<>>]
    ELSE LET i == CHOOSE j \in FindTask(tasks, task_id) : TRUE
             task == [f \in DOMAIN tasks[i] |->
                        IF f \in task_update.has THEN task_update[f]
                                                 ELSE tasks[i][f]]
         IN  [tasks |-> [tasks EXCEPT ![i] = task],
              task_counter |-> task_counter,
              status |-> 200, data |-> <<task>>]

tm_delete_task(tasks, task_counter, task_id) ==
    IF FindTask(tasks, task_id) = {}
    THEN [tasks |-> tasks, task_counter |-> task_counter,
          status |-> 404, data |-> <<>>]
    ELSE [tasks |-> SelectSeq(tasks, LAMBDA t : t.id # task_id),
          task_counter |-> task_counter, status |-> 200, data |-> <<>>]

\* startup_event: three sample tasks
sample_tasks ==
    <<TaskCreate("Welcome to Task Manager", "This is a sample task"),
      TaskCreate("Learn Docker", "Complete the Docker exercises"),
      TaskCreate("Build containers", "Practice multi-stage builds")>>

startup_event ==
    LET one   == tm_create_task(<<>>, 0, sample_tasks[1], 0)
        two   == tm_create_task(one.tasks, one.task_counter, sample_tasks[2], 0)
        three == tm_create_task(two.tasks, two.task_counter, sample_tasks[3], 0)
    IN  three

(***************************************************************************)
(* flask-quality (examples/flask-quality/app.py): table "tasks" in store,  *)
(* its primary-key sequence in nextId.  Strings are sequences of           *)
(* characters, so that strip() is computed.                                *)
(***************************************************************************)
\* SQL NULL / Python None in a text column
Null == <<"NULL">>

RECURSIVE LStrip(_)
LStrip(s) == IF s # <<>> /\ Head(s) = " " THEN LStrip(Tail(s)) ELSE s

RECURSIVE RStrip(_)
RStrip(s) ==
    IF s # <<>> /\ s[Len(s)] = " " THEN RStrip(SubSeq(s, 1, Len(s) - 1)) ELSE s

Strip(s) == RStrip(LStrip(s))

\* x or None
OrNone(x) == IF x = <<>> THEN Null ELSE x

\* Task.to_dict
to_dict(task) ==
    [id |-> task.id, title |-> task.title,
     description |-> IF task.description \in {Null, <<>>} THEN <<>>
                     ELSE task.description,
     completed |-> task.completed,
     created_at |-> IsoFormat(task.created_at)]

FqResult(st, nid, status, data) ==
    [store |-> st, nextId |-> nid, status |-> status, data |-> data]

\* Task.query.get(task_id), as the indexes found
QueryGet(st, task_id) == {i \in 1..Len(st) : st[i].id = task_id}

fq_get_task(st, nid, task_id, f) ==
    IF f[1] = "raise" THEN FqResult(st, nid, 500, <<>>)
    ELSE IF QueryGet(st, task_id) = {} THEN FqResult(st, nid, 404, <<>>)
    ELSE FqResult(st, nid, 200,
                  <<to_dict(st[CHOOSE i \in QueryGet(st, task_id) : TRUE])>>)

fq_create_task(st, nid, data, t, f) ==
    IF data.has = {} THEN FqResult(st, nid, 400, <<>>)
    ELSE IF "title" \notin data.has \/ Strip(data.title) = <<>>
    THEN FqResult(st, nid, 400, <<>>)
    ELSE LET task == [id |-> nid, title |-> Strip(data.title),
                      description |->
                          OrNone(Strip(IF "description" \in data.has
                                       THEN data.description ELSE <<>>)),
                      completed |-> FALSE, created_at |-> t]
         IN  IF f[2] = "raise" THEN FqResult(st, nid, 500, <<>>)
             ELSE FqResult(Append(st, task), nid + 1, 201, <<to_dict(task)>>)

\* the fields update_task assigns before it commits
FqAssigned(task, data) ==
    [task EXCEPT
       !.title = IF "title" \in data.has THEN Strip(data.title) ELSE @,
       !.description = IF "description" \in data.has
                       THEN OrNone(Strip(data.description)) ELSE @,
       !.completed = IF "completed" \in data.has THEN data.completed ELSE @]

\* mutant: db.session.commit() is missing, the request's session is discarded
fq_update_task_NoCommit(st, nid, task_id, data, f) ==
    IF f[1] = "raise" THEN FqResult(st, nid, 500, <<>>)
    ELSE IF QueryGet(st, task_id) = {} THEN FqResult(st, nid, 404, <<>>)
    ELSE IF data.has = {} THEN FqResult(st, nid, 400, <<>>)
    ELSE IF "title" \in data.has /\ Strip(data.title) = <<>>
    THEN FqResult(st, nid, 400, <<>>)
    ELSE LET i == CHOOSE j \in QueryGet(st, task_id) : TRUE
         IN  FqResult(st, nid, 200, <<to_dict(FqAssigned(st[i], data))>>)

fq_update_task(st, nid, task_id, data, f) ==
    IF f[1] = "raise" THEN FqResult(st, nid, 500, <<>>)
    ELSE IF QueryGet(st, task_id) = {} THEN FqResult(st, nid, 404, <<>>)
    ELSE IF data.has = {} THEN FqResult(st, nid, 400, <<>>)
    ELSE IF "title" \in data.has /\ Strip(data.title) = <<>>
    THEN FqResult(st, nid, 400, <<>>)
    ELSE LET i == CHOOSE j \in QueryGet(st, task_id) : TRUE
         IN  IF f[2] = "raise" THEN FqResult(st, nid, 500, <<>>)
             ELSE FqResult([st EXCEPT ![i] = FqAssigned(st[i], data)], nid, 200,
                           <<to_dict(FqAssigned(st[i], data))>>)

fq_delete_task(st, nid, task_id, f) ==
    IF f[1] = "raise" THEN FqResult(st, nid, 500, <<>>)
    ELSE IF QueryGet(st, task_id) = {} THEN FqResult(st, nid, 404, <<>>)
    ELSE IF f[2] = "raise" THEN FqResult(st, nid, 500, <<>>)
    ELSE FqResult(SelectSeq(st, LAMBDA t : t.id # task_id), nid, 204, <<>>)

(***************************************************************************)
(* SpecUpdate: one of the programs that keep single entities readable by   *)
(* id (Task Manager, flask-quality, fastapi-cicd), completed requests one  *)
(* at a time.                                                              *)
(***************************************************************************)
UpdateApps == {"task-manager", "flask-quality", "fastapi-cicd"}

\* the state of the program `a` after its startup
InitApp(a) ==
    /\ app = a
    /\ store = IF a = "task-manager" THEN startup_event.tasks ELSE <<>>
    /\ nextId = IF a = "task-manager" THEN startup_event.task_counter + 1 ELSE 1
    /\ cache = EmptyCache
    /\ now = 0
    /\ resp = NoResp
    /\ missedInval = FALSE
    /\ reqs = [r \in 1..MaxReqs |-> Idle]

\* a handler of a program without cache has answered
Answered(kind, id, input, st, nid, status, data) ==
    /\ resp = NoResp
    /\ store' = st
    /\ nextId' = nid
    /\ resp' = [kind |-> kind, id |-> id, input |-> input,
                status |-> status, data |-> data]
    /\ UNCHANGED <<cache, now, missedInval, reqs, app>>

NoBody == Body({}, "", "", FALSE)

TmIds == 1..(Len(sample_tasks) + MaxItems)

TmUpdates ==
    {Body({"title"}, "A", "", FALSE),
     Body({"completed"}, "", "", TRUE),
     Body({"title", "description", "completed"}, "B", "D", FALSE)}

\* POST /tasks
TmCreateTask ==
    /\ app = "task-manager"
    /\ nextId < Len(sample_tasks) + MaxItems
    /\ LET r == tm_create_task(store, nextId - 1, TaskCreate("A", ""), now)
       IN  Answered("create_task", nextId, NoBody, r.tasks, r.task_counter + 1,
                    r.status, r.data)

\* GET /tasks/{task_id}
TmGetTask ==
    /\ app = "task-manager"
    /\ \E task_id \in TmIds :
          LET r == tm_get_task(store, nextId - 1, task_id)
          IN  Answered("get_task", task_id, NoBody, r.tasks, r.task_counter + 1,
                       r.status, r.data)

\* PUT /tasks/{task_id}
TmUpdateTask ==
    /\ app = "task-manager"
    /\ \E task_id \in TmIds, task_update \in TmUpdates :
          LET r == tm_update_task(store, nextId - 1, task_id, task_update)
          IN  Answered("update_task", task_id, task_update, r.tasks,
                       r.task_counter + 1, r.status, r.data)

\* DELETE /tasks/{task_id}
TmDeleteTask ==
    /\ app = "task-manager"
    /\ \E task_id \in TmIds :
          LET r == tm_delete_task(store, nextId - 1, task_id)
          IN  Answered("delete_task", task_id, NoBody, r.tasks, r.task_counter + 1,
                       r.status, r.data)

FqIds == 1..(MaxItems + 1)

FqNoBody == Body({}, <<>>, <<>>, FALSE)

FqBodies ==
    {FqNoBody,
     Body({"title"}, <<" ", "A", " ">>, <<>>, FALSE),
     Body({"title"}, <<" ">>, <<>>, FALSE),
     Body({"completed"}, <<>>, <<>>, TRUE),
     Body({"description"}, <<>>, <<" ">>, FALSE),
     Body({"title", "description", "completed"}, <<"B">>, <<"D", " ">>, FALSE)}

\* the outcome of the query and of the commit
Faults2 == [1..2 -> Outcomes]
AllOk2 == [i \in 1..2 |-> "ok"]

\* POST /tasks
FqCreateTask ==
    /\ app = "flask-quality"
    /\ nextId <= MaxItems
    /\ \E data \in FqBodies, f \in Faults2 :
          LET r == fq_create_task(store, nextId, data, now, f)
          IN  Answered("create_task", nextId, data, r.store, r.nextId,
                       r.status, r.data)

\* GET /tasks/<task_id>
FqGetTask ==
    /\ app = "flask-quality"
    /\ \E task_id \in FqIds, f \in Faults2 :
          LET r == fq_get_task(store, nextId, task_id, f)
          IN  Answered("get_task", task_id, FqNoBody, r.store, r.nextId,
                       r.status, r.data)

\* PUT /tasks/<task_id>
FqUpdateTask ==
    /\ app = "flask-quality"
    /\ \E task_id \in FqIds, data \in FqBodies, f \in Faults2 :
          LET r == fq_update_task(store, nextId, task_id, data, f)
          IN  Answered("update_task", task_id, data, r.store, r.nextId,
                       r.status, r.data)

\* DELETE /tasks/<task_id>
FqDeleteTask ==
    /\ app = "flask-quality"
    /\ \E task_id \in FqIds, f \in Faults2 :
          LET r == fq_delete_task(store, nextId, task_id, f)
          IN  Answered("delete_task", task_id, FqNoBody, r.store, r.nextId,
                       r.status, r.data)

\* fastapi-cicd: the handlers that touch "item:{id}"
CicdGetItem == app = "fastapi-cicd" /\ GetItem
CicdCreateItem == app = "fastapi-cicd" /\ CreateItem

InitUpdate == \E a \in UpdateApps : InitApp(a)

NextUpdate ==
    \/ TmCreateTask \/ TmGetTask \/ TmUpdateTask \/ TmDeleteTask
    \/ FqCreateTask \/ FqGetTask \/ FqUpdateTask \/ FqDeleteTask
    \/ CicdGetItem \/ CicdCreateItem
    \/ Deliver

SpecUpdate == InitUpdate /\ [][NextUpdate]_vars

(***************************************************************************)
(* C11: after an update that answered 200, a get of the same id answers    *)
(* 200 with what the update answered, and every field the update provided  *)
(* holds the submitted value (flask-quality: stripped), never the value    *)
(* from before the update.  In fastapi-cicd, whose only write to an item   *)
(* is its creation, a well-formed "item:{id}" entry always equals the      *)
(* store's row, and a get of an item just created answers with that item.  *)
(***************************************************************************)
UpdatedOk == resp.kind = "update_task" /\ resp.status = 200

\* the value a provided field is stored as
Submitted(f) ==
    IF app = "task-manager" \/ f = "completed" THEN resp.input[f]
    ELSE Strip(resp.input[f])

GetAfterUpdate ==
    IF app = "task-manager"
    THEN tm_get_task(store, nextId - 1, resp.id)
    ELSE fq_get_task(store, nextId, resp.id, AllOk2)

C11_UpdateThenGetReflects ==
    /\ (app \in {"task-manager", "flask-quality"} /\ UpdatedOk) =>
          /\ GetAfterUpdate.status = 200
          /\ GetAfterUpdate.data = resp.data
          /\ \A f \in resp.input.has : GetAfterUpdate.data[1][f] = Submitted(f)
    /\ app = "fastapi-cicd" =>
          /\ \A id \in Ids :
                (ItemKey(id) \in DOMAIN cache /\ LoadItemOk(cache[ItemKey(id)].val))
                   => <<LoadItem(cache[ItemKey(id)].val)>> = StoreItem(id)
          /\ (resp.kind = "create_item" /\ resp.status = 201) =>
                LET got == get_item(TheWorld, resp.id, now, AllOk).fr
                IN  got.status = 200 /\ got.data = resp.data

\* an update that changed the title of a task that is then read back
C11_Witness ==
    /\ app = "flask-quality"
    /\ UpdatedOk
    /\ "title" \in resp.input.has
    /\ resp.input.title # resp.data[1].title
    /\ resp.data[1].title = <<"A">>
    /\ \E i \in 1..Len(store) : store[i].id # resp.id /\ store[i].title = <<"B">>

(***************************************************************************)
(* SpecTies: fastapi-cicd list and create requests, one at a time, where   *)
(* func.now() may read the same instant for rows inserted one after the    *)
(* other.                                                                  *)
(***************************************************************************)
TieFaults == {[f EXCEPT ![1] = o] : f \in Faults, o \in TieOutcomes}

\* POST /api/items, the row stamped with the created_at of the row before
CreateItemTied ==
    \E name \in Names, f \in TieFaults :
        /\ Len(store) < MaxItems
        /\ Completed(create_item(TheWorld, name, now, f))

NextTies == GetItems \/ CreateItem \/ CreateItemTied \/ Deliver

SpecTies == Init /\ [][NextTies]_vars

\* a list request answered 200 by the store query
ListedFromStore(skip, limit) ==
    /\ resp.kind = "get_items"
    /\ resp.status = 200
    /\ ~resp.hit
    /\ resp.skip = skip
    /\ resp.limit = limit

NamesOf(items) == [i \in 1..Len(items) |-> items[i].name]

RowOf(item_id) == store[CHOOSE i \in 1..Len(store) : store[i].id = item_id]

\* item A was created, then item B, and nothing else
ScenarioAB ==
    /\ IdsOf(store) = {1, 2}
    /\ RowOf(1).name = "A"
    /\ RowOf(2).name = "B"

\* the first two steps of the scenario: ids are assigned 1, 2, ... and the
\* list after the first create holds item 1
ScenarioStart ==
    /\ (resp.kind = "create_item" /\ resp.status = 201) =>
          /\ resp.id = Len(store)
          /\ resp.data[1].id = resp.id
          /\ resp.data[1].name = resp.name
    /\ (IdsOf(store) = {1} /\ ListedFromStore(DefaultSkip, DefaultLimit)) =>
          /\ IdsOf(resp.data) = {1}
          /\ resp.data[1].name = RowOf(1).name

(***************************************************************************)
(* C12 as claimed: after creating A (id 1) and then B (id 2) on an empty   *)
(* store, GET /api/items?skip=1&limit=1 returns exactly the list [B].      *)
(***************************************************************************)
C12_Claimed ==
    /\ ScenarioStart
    /\ (ScenarioAB /\ ListedFromStore(1, 1)) => NamesOf(resp.data) = <<"B">>

(***************************************************************************)
(* C12 as amended: creates answer 201 with ids 1 and 2, the list after the *)
(* first create holds item 1, and GET /api/items?skip=1&limit=1 returns    *)
(* exactly one item, the second in created_at-descending order: A when B's *)
(* created_at is later than A's, and A or B when both rows carry the same  *)
(* created_at.                                                             *)
(***************************************************************************)
C12_ScenarioSecondPage ==
    /\ ScenarioStart
    /\ (ScenarioAB /\ ListedFromStore(1, 1)) =>
          /\ Len(resp.data) = 1
          /\ IF RowOf(2).created_at > RowOf(1).created_at
             THEN NamesOf(resp.data) = <<"A">>
             ELSE /\ RowOf(2).created_at = RowOf(1).created_at
                  /\ resp.data[1].name \in {"A", "B"}

\* the scenario's last step, B stamped later than A
C12_Witness ==
    /\ ScenarioAB
    /\ ListedFromStore(1, 1)
    /\ RowOf(2).created_at > RowOf(1).created_at
    /\ NamesOf(resp.data) = <<"A">>

(***************************************************************************)
(* C13: with N rows stored, the list query for (skip, limit) returns       *)
(* min(limit, max(0, N - skip)) items, most recently created first (of two *)
(* items created one after the other, the later one, which has the larger  *)
(* id, comes first); a list request answered by the store returns that     *)
(* page; without parameters the page is (0, 100), which holds every item   *)
(* of a store of at most 100, and nothing for an empty store.              *)
(***************************************************************************)
Max(a, b) == IF a > b THEN a ELSE b

PageSize(n, skip, limit) == Min(limit, Max(0, n - skip))

LaterFirst(items) ==
    \A i, j \in 1..Len(items) : i < j => items[i].id > items[j].id

SkipsTried == 0..(MaxItems + 1)
LimitsTried == (1..(MaxItems + 1)) \cup {DefaultLimit}

C13_ListSizeAndOrder ==
    /\ \A skip \in SkipsTried, limit \in LimitsTried :
          /\ Len(StoreItems(skip, limit)) = PageSize(Len(store), skip, limit)
          /\ LaterFirst(StoreItems(skip, limit))
    /\ IdsOf(StoreItems(DefaultSkip, DefaultLimit)) = IdsOf(store)
    /\ \A page \in Pages :
          ListedFromStore(page[1], page[2]) =>
              resp.data = StoreItems(page[1], page[2])

(***************************************************************************)
(* C14: a get_item whose store query succeeded answers 404 with no cache   *)
(* write when the id is not in the store, and 200 with the item's id and   *)
(* name when it is; no "item:{id}" key exists for an id that is not        *)
(* stored, and after the 404 for the id the next create is given, a get of *)
(* that id following the create answers 200 with the created item.         *)
(***************************************************************************)
\* create_item and then get_item(item_id), from the current state
GetAfterCreate(item_id) ==
    LET made == create_item(TheWorld, "A", now, AllOk)
        got  == get_item(made.w, item_id, now, AllOk)
    IN  [made |-> made.fr, got |-> got.fr]

C14_NotFoundIs404 ==
    /\ \A id \in Ids : id \notin IdsOf(store) => ItemKey(id) \notin DOMAIN cache
    /\ (resp.kind = "get_item" /\ AllOkCalls(StoreCalls(resp))) =>
          IF resp.id \in IdsOf(store)
          THEN /\ resp.status = 200
               /\ resp.data[1].id = resp.id
               /\ resp.data[1].name = RowOf(resp.id).name
          ELSE /\ resp.status = 404
               /\ resp.data = <<>>
               /\ CallsOf(resp, {"setex"}) = <<>>
               /\ resp.id = nextId =>
                     /\ GetAfterCreate(resp.id).made.status = 201
                     /\ GetAfterCreate(resp.id).got.status = 200
                     /\ GetAfterCreate(resp.id).got.data =
                           GetAfterCreate(resp.id).made.data

\* a 404 for the id of the next item while another item is stored and cached
C14_Witness ==
    /\ resp.kind = "get_item"
    /\ resp.status = 404
    /\ resp.id = nextId
    /\ store # <<>>
    /\ \E id \in IdsOf(store) : ItemKey(id) \in DOMAIN cache

(***************************************************************************)
(* SpecPost: fastapi-cicd requests, one at a time, where POST /api/items   *)
(* carries a raw body that FastAPI validates against ItemCreate before it  *)
(* calls create_item.                                                      *)
(***************************************************************************)
NameMinLength == 1
NameMaxLength == 100
DescriptionMaxLength == 1000

\* a string: what it spells and how many characters it has
Text(s, len) == [s |-> s, len |-> len]

NoText == Text("", 0)

\* a JSON body: the keys it has and their values
ItemBody(has, name, description) ==
    [has |-> has, name |-> name, description |-> description]

ItemBodies ==
    {ItemBody({"name"}, Text("A", NameMinLength), NoText),
     ItemBody({"name", "description"}, Text("B", NameMaxLength),
              Text("d", DescriptionMaxLength)),
     ItemBody({"description"}, NoText, Text("d", 1)),
     ItemBody({"name"}, Text("", 0), NoText),
     ItemBody({"name"}, Text("B", NameMaxLength + 1), NoText),
     ItemBody({"name", "description"}, Text("A", 1),
              Text("d", DescriptionMaxLength + 1))}

\* mutant: name has no max_length
ItemCreateOk_NoMax(body) ==
    /\ "name" \in body.has
    /\ body.name.len >= NameMinLength
    /\ "description" \in body.has => body.description.len <= DescriptionMaxLength

\* ItemCreate(**body) does not raise
ItemCreateOk(body) ==
    /\ "name" \in body.has
    /\ body.name.len >= NameMinLength
    /\ body.name.len <= NameMaxLength
    /\ "description" \in body.has => body.description.len <= DescriptionMaxLength

\* the request as FastAPI handles it: 422 from the validation of the body,
\* otherwise create_item
post_items(w, body, t, f) ==
    IF ItemCreateOk(body)
    THEN create_item(w, body.name.s, t, f)
    ELSE [w |-> w,
          fr |-> [NewFrame("create_item", 0, 0, 0, "", "done") EXCEPT !.status = 422]]

\* POST /api/items
PostItems ==
    \E body \in ItemBodies, f \in Faults :
        /\ ItemCreateOk(body) => Len(store) < MaxItems
        /\ Completed(post_items(TheWorld, body, now, f))

NextPost == GetItems \/ GetItem \/ PostItems \/ Deliver

SpecPost == Init /\ [][NextPost]_vars

(***************************************************************************)
(* C15: a POST /api/items body without name, with an empty name, with a    *)
(* name of more than 100 characters or with a description of more than     *)
(* 1000 characters is answered 422 whatever the cache and the store would  *)
(* do, with no cache or store call, and leaves store, id sequence and      *)
(* cache as they were.                                                     *)
(***************************************************************************)
Invalid(body) ==
    \/ "name" \notin body.has
    \/ body.name.len = 0
    \/ body.name.len > 100
    \/ "description" \in body.has /\ body.description.len > 1000

C15_InvalidBodyRejected ==
    /\ \A body \in ItemBodies, f \in Faults :
          Invalid(body) =>
              /\ post_items(TheWorld, body, now, f).fr.status = 422
              /\ post_items(TheWorld, body, now, f).fr.ops = <<>>
              /\ post_items(TheWorld, body, now, f).w = TheWorld
    /\ (resp.kind = "create_item" /\ resp.status = 422) => resp.ops = <<>>

\* a rejected POST while an item is stored and a page is cached
C15_Witness ==
    /\ resp.kind = "create_item"
    /\ resp.status = 422
    /\ store # <<>>
    /\ RedisKeys(cache, ItemsPattern) # {}

(***************************************************************************)
(* SpecReady: fastapi-cicd requests, one at a time, with GET /ready.       *)
(* Python values carry their type, so that JSON rendering is computed.     *)
(***************************************************************************)
Str(s) == [py |-> "str", v |-> s]

Datetime(t) == [py |-> "datetime", v |-> <<t>>]

ReadinessResponse(status_code, db_status, redis_status, timestamp) ==
    [status |-> Str(status_code), database |-> Str(db_status),
     redis |-> Str(redis_status), timestamp |-> timestamp]

\* BaseModel.model_dump(): the fields as Python objects, a datetime stays one
model_dump(m) == m

\* the serialisation of a returned response_model: datetimes become ISO strings
SerializeResponse(m) ==
    [k \in DOMAIN m |->
        IF m[k].py = "datetime" THEN Str(IsoFormat(m[k].v[1])) ELSE m[k]]

\* json.dumps(content) without a default= hook does not raise
JsonDumpsOk(content) == \A k \in DOMAIN content : content[k].py = "str"

\* JSONResponse(status_code=..., content=...): the body is rendered in the
\* constructor; a TypeError raised there leaves the handler and is answered 500
JSONResponse(status_code, content) ==
    IF JsonDumpsOk(content)
    THEN [status |-> status_code, body |-> content]
    ELSE [status |-> 500, body |-> [detail |-> Str("Internal Server Error")]]

\* db, rd: the outcome of the database query and of the Redis ping
readiness_check(db, rd, t) ==
    LET db_status    == IF db = "ok" THEN "connected" ELSE "disconnected"
        redis_status == IF rd = "ok" THEN "connected" ELSE "disconnected"
        status_code  == IF db_status = "connected" /\ redis_status = "connected"
                        THEN "ready" ELSE "not ready"
        response     == ReadinessResponse(status_code, db_status, redis_status,
                                          Datetime(t))
    IN  IF status_code = "not ready"
        THEN JSONResponse(503, model_dump(response))
        ELSE [status |-> 200, body |-> SerializeResponse(response)]

\* GET /ready
ReadinessCheck ==
    \E db \in Outcomes, rd \in Outcomes :
        /\ resp = NoResp
        /\ resp' = [kind |-> "readiness_check", db |-> db, redis |-> rd,
                    status |-> readiness_check(db, rd, now).status,
                    body |-> readiness_check(db, rd, now).body]
        /\ UNCHANGED <<store, nextId, cache, now, missedInval, reqs, app>>

NextReady == GetItems \/ GetItem \/ CreateItem \/ Deliver \/ ReadinessCheck

SpecReady == Init /\ [][NextReady]_vars

(***************************************************************************)
(* C16: GET /ready answers 200 with status "ready" exactly when the        *)
(* database check and the Redis ping both succeed; otherwise it answers    *)
(* 503 with status "not ready"; database and redis report "connected" or   *)
(* "disconnected" for their own dependency.                                *)
(***************************************************************************)
Reported(outcome) == IF outcome = "ok" THEN "connected" ELSE "disconnected"

C16_ReadyIffBothUp ==
    resp.kind = "readiness_check" =>
        /\ resp.status = IF resp.db = "ok" /\ resp.redis = "ok" THEN 200 ELSE 503
        /\ resp.body.status.v = IF resp.status = 200 THEN "ready" ELSE "not ready"
        /\ resp.body.database.v = Reported(resp.db)
        /\ resp.body.redis.v = Reported(resp.redis)

(***************************************************************************)
(* SpecReads: get_items requests interleaved await by await; an item is    *)
(* created only while no request is in flight.                             *)
(***************************************************************************)
\* POST /api/items from its first line to its response, no request in flight
QuietCreateItem ==
    \E name \in Names :
        /\ \A r \in 1..MaxReqs : reqs[r] = Idle
        /\ Len(store) < MaxItems
        /\ Completed(create_item(TheWorld, name, now, AllOk))

NextReads ==
    \/ \E r \in Slots : ConcStartGetItems(r) \/ ConcStep(r) \/ ConcFinish(r)
    \/ QuietCreateItem
    \/ Deliver

SpecReads == Init /\ [][NextReads]_vars

(***************************************************************************)
(* C17: with no write in flight, every get_items request ends 200 with the *)
(* store's current result for its (skip, limit); one that missed the cache *)
(* has read the cache, queried the store and written the cache, whether or *)
(* not another request populates the same key; so two requests for the     *)
(* same key return the same data, and every cached page, whichever write   *)
(* landed last, equals the store's current result for its key.             *)
(***************************************************************************)
OpsOf(fr) == [i \in 1..Len(fr.ops) |-> fr.ops[i].op]

Ended(r) == reqs[r].kind = "get_items" /\ reqs[r].pc = "done"

C17_RacingReadsAgree ==
    /\ \A r \in Slots :
          Ended(r) =>
              /\ reqs[r].status = 200
              /\ reqs[r].data = StoreItems(reqs[r].skip, reqs[r].limit)
              /\ ~reqs[r].hit => OpsOf(reqs[r]) = <<"get", "select", "setex">>
    /\ \A r1, r2 \in Slots :
          (Ended(r1) /\ Ended(r2) /\ reqs[r1].skip = reqs[r2].skip
             /\ reqs[r1].limit = reqs[r2].limit) => reqs[r1].data = reqs[r2].data
    /\ \A k \in RedisKeys(cache, ItemsPattern) :
          /\ LoadItemsOk(cache[k].val)
          /\ LoadItems(cache[k].val) = StoreItems(k[3], k[5])

\* two requests for the default page that both missed and both populated it
C17_Witness ==
    \E r1, r2 \in Slots :
        /\ r1 # r2
        /\ Ended(r1) /\ Ended(r2)
        /\ ~reqs[r1].hit /\ ~reqs[r2].hit
        /\ reqs[r1].skip = DefaultSkip /\ reqs[r2].skip = DefaultSkip
        /\ store # <<>>
        /\ ItemsKey(DefaultSkip, DefaultLimit) \in DOMAIN cache

(***************************************************************************)
(* fastapi-quality: users kept in a module-level list, answers cached in   *)
(* Redis.  In SpecUsers the variable store holds the list `users`.         *)
(***************************************************************************)
UsersTTL == 300

\* "users:all"
UsersAllKey == <<"users", ":", "all">>

\* f"user:{new_user.id}"
UserKey(user_id) == <<"user", ":", user_id>>

Emails == {"a@x.org", "b@x.org"}

UserCreate(name, email) == [has |-> {"name", "email"}, name |-> name, email |-> email]

User(user_id, name, email, created_at) ==
    [id |-> user_id, name |-> name, email |-> email, created_at |-> created_at]

\* json.dumps(new_user.dict())
DumpUser(user) == [fmt |-> "json", t |-> "dict", v |-> <<user>>]

\* json.dumps([user.dict() for user in users])
DumpUsers(us) == [fmt |-> "json", t |-> "list", v |-> us]

\* [User(**user) for user in json.loads(cached_users)]
LoadUsers(text) == [i \in 1..Len(text.v) |-> text.v[i]]

\* the body validates against UserCreate: name and email are required
UserCreateOk(body) == {"name", "email"} \subseteq body.has

UsersResult(c, us, status, data) ==
    [cache |-> c, users |-> us, status |-> status, data |-> data]

\* create_user: the user is appended, then cached under its own key; an
\* exception of redis_client.setex is not caught
fastq_create_user(c, us, body, t, fault) ==
    IF ~UserCreateOk(body)
    THEN UsersResult(c, us, 422, <<>>)
    ELSE LET new_user == User(Len(us) + 1, body.name, body.email, IsoFormat(t))
             appended == Append(us, new_user)
         IN  IF fault = "raise"
             THEN UsersResult(c, appended, 500, <<>>)
             ELSE UsersResult(RedisSetex(c, UserKey(new_user.id), UsersTTL,
                                         DumpUser(new_user), t, t),
                              appended, 200, <<new_user>>)

\* get_users: the cached list when there is one, else the list, cached on
\* the way; f[1] is the outcome of redis_client.get, f[2] of setex
fastq_get_users(c, us, t, f) ==
    IF f[1] = "raise"
    THEN UsersResult(c, us, 500, <<>>)
    ELSE LET cached_users == RedisGet(c, UsersAllKey)
         IN  IF Truthy(cached_users)
             THEN UsersResult(c, us, 200, LoadUsers(cached_users))
             ELSE IF f[2] = "raise"
                  THEN UsersResult(c, us, 500, <<>>)
                  ELSE UsersResult(RedisSetex(c, UsersAllKey, UsersTTL,
                                              DumpUsers(us), t, t),
                                   us, 200, us)

(***************************************************************************)
(* SpecUsers: fastapi-quality, one request at a time, and time passing     *)
(***************************************************************************)
UserBodies ==
    {UserCreate(n, e) : n \in Names, e \in Emails}
        \cup {[has |-> {"name"}, name |-> "A", email |-> ""]}

AnsweredUsers(kind, input, r) ==
    /\ resp = NoResp
    /\ store' = r.users
    /\ cache' = r.cache
    /\ resp' = [kind |-> kind, id |-> 0, input |-> input,
                status |-> r.status, data |-> r.data]
    /\ UNCHANGED <<nextId, now, missedInval, reqs, app>>

\* POST /users
FastqCreateUser ==
    /\ app = "fastapi-quality"
    /\ \E body \in UserBodies, fault \in Outcomes :
          /\ UserCreateOk(body) => Len(store) < MaxItems
          /\ AnsweredUsers("create_user", body,
                           fastq_create_user(cache, store, body, now, fault))

\* GET /users
FastqGetUsers ==
    /\ app = "fastapi-quality"
    /\ \E f \in Faults2 :
          AnsweredUsers("get_users", NoBody, fastq_get_users(cache, store, now, f))

InitUsers == InitApp("fastapi-quality")

NextUsers == FastqCreateUser \/ FastqGetUsers \/ Tick \/ Deliver

SpecUsers == InitUsers /\ [][NextUsers]_vars

(***************************************************************************)
(* C18: when POST /users has answered 200 with the created user, the next  *)
(* GET /users answers 200 with a list that holds that user, and no list    *)
(* cached under "users:all" lacks it.                                      *)
(***************************************************************************)
Elements(seq) == {seq[i] : i \in 1..Len(seq)}

UserCreated == resp.kind = "create_user" /\ resp.status = 200

C18_CreatedUserListed ==
    UserCreated =>
        LET next == fastq_get_users(cache, store, now, AllOk2)
        IN  /\ next.status = 200
            /\ resp.data[1] \in Elements(next.data)
            /\ UsersAllKey \in DOMAIN cache =>
                   resp.data[1] \in Elements(LoadUsers(cache[UsersAllKey].val))

\* a user was created while no list was cached
C18_FreshListReached == UserCreated /\ UsersAllKey \notin DOMAIN cache

(***************************************************************************)
(* flask-cicd: tasks in a SQL table, their count cached in Redis under     *)
(* 'task_count'.  Every handler runs inside try/except Exception.  In      *)
(* SpecTasks the variable store holds the committed rows of the table.     *)
(***************************************************************************)
TaskCountKey == <<"task_count">>

\* redis_client.set(key, value): the entry is kept without expiry
RedisSet(c, key, val) ==
    [k \in DOMAIN c \cup {key} |-> IF k = key THEN [val |-> val] ELSE c[k]]

\* the bytes Redis keeps for an integer value
BytesOfInt(n) == <<"bytes", n>>

\* int(cached_count)
IntOfBytes(b) == b[2]

\* Task.to_dict of flask-cicd
fc_to_dict(task) ==
    [id |-> task.id, title |-> task.title, description |-> task.description,
     completed |-> task.completed, created_at |-> IsoFormat(task.created_at)]

\* the outcome of each call a handler makes to the database or to Redis
FcCalls == {"query", "commit", "count", "get", "set"}
FcFaults == [FcCalls -> Outcomes]
FcAllOk == [c \in FcCalls |-> "ok"]

FcResult(st, nid, c, status, data, ops) ==
    [store |-> st, nextId |-> nid, cache |-> c, status |-> status,
     data |-> data, ops |-> ops]

FcOk(op) == Call(op, "", TRUE, 0)
FcRaised(op) == Call(op, "", FALSE, 0)

\* get_tasks
fc_get_tasks(st, nid, c, f) ==
    IF f["query"] = "raise"
    THEN FcResult(st, nid, c, 500, <<"Failed to retrieve tasks">>, <<FcRaised("query")>>)
    ELSE FcResult(st, nid, c, 200,
                  <<[tasks |-> [i \in 1..Len(st) |-> fc_to_dict(st[i])],
                     count |-> Len(st)]>>,
                  <<FcOk("query")>>)

\* create_task: 400 without a title; the row is committed, then the count
\* is queried and cached, all inside the try: whatever raises, before or
\* after the commit, ends in the except clause (rollback, 500)
fc_create_task(st, nid, c, data, t, f) ==
    IF data.has = {} \/ "title" \notin data.has
    THEN FcResult(st, nid, c, 400, <<"Title is required">>, <<>>)
    ELSE LET task == [id |-> nid, title |-> data.title,
                      description |-> IF "description" \in data.has
                                      THEN data.description ELSE "",
                      completed |-> FALSE, created_at |-> t]
             committed == Append(st, task)
             failed == <<"Failed to create task">>
         IN  IF f["commit"] = "raise"
             THEN FcResult(st, nid, c, 500, failed,
                           <<FcRaised("commit"), FcOk("rollback")>>)
             ELSE IF f["count"] = "raise"
             THEN FcResult(committed, nid + 1, c, 500, failed,
                           <<FcOk("commit"), FcRaised("count"), FcOk("rollback")>>)
             ELSE IF f["set"] = "raise"
             THEN FcResult(committed, nid + 1, c, 500, failed,
                           <<FcOk("commit"), FcOk("count"), FcRaised("set"),
                             FcOk("rollback")>>)
             ELSE FcResult(committed, nid + 1,
                           RedisSet(c, TaskCountKey, BytesOfInt(Len(committed))),
                           201, <<fc_to_dict(task)>>,
                           <<FcOk("commit"), FcOk("count"), FcOk("set")>>)

\* update_task: the NotFound raised by get_or_404 is an Exception as well,
\* so an unknown id ends in the except clause
fc_update_task(st, nid, c, task_id, data, f) ==
    LET failed == <<"Failed to update task">>
        found == QueryGet(st, task_id)
    IN  IF f["query"] = "raise" \/ found = {}
        THEN FcResult(st, nid, c, 500, failed,
                      <<Call("query", "", f["query"] = "ok", 0), FcOk("rollback")>>)
        ELSE IF data.has = {}
        THEN FcResult(st, nid, c, 400, <<"No data provided">>, <<FcOk("query")>>)
        ELSE LET i == CHOOSE j \in found : TRUE
                 task == [st[i] EXCEPT
                            !.title = IF "title" \in data.has THEN data.title ELSE @,
                            !.description = IF "description" \in data.has
                                            THEN data.description ELSE @,
                            !.completed = IF "completed" \in data.has
                                          THEN data.completed ELSE @]
             IN  IF f["commit"] = "raise"
                 THEN FcResult(st, nid, c, 500, failed,
                               <<FcOk("query"), FcRaised("commit"), FcOk("rollback")>>)
                 ELSE FcResult([st EXCEPT ![i] = task], nid, c, 200,
                               <<fc_to_dict(task)>>, <<FcOk("query"), FcOk("commit")>>)

\* delete_task: as create_task, the count is queried and cached after the
\* commit and inside the try
fc_delete_task(st, nid, c, task_id, f) ==
    LET failed == <<"Failed to delete task">>
        found == QueryGet(st, task_id)
        committed == SelectSeq(st, LAMBDA row : row.id # task_id)
    IN  IF f["query"] = "raise" \/ found = {}
        THEN FcResult(st, nid, c, 500, failed,
                      <<Call("query", "", f["query"] = "ok", 0), FcOk("rollback")>>)
        ELSE IF f["commit"] = "raise"
        THEN FcResult(st, nid, c, 500, failed,
                      <<FcOk("query"), FcRaised("commit"), FcOk("rollback")>>)
        ELSE IF f["count"] = "raise"
        THEN FcResult(committed, nid, c, 500, failed,
                      <<FcOk("query"), FcOk("commit"), FcRaised("count"),
                        FcOk("rollback")>>)
        ELSE IF f["set"] = "raise"
        THEN FcResult(committed, nid, c, 500, failed,
                      <<FcOk("query"), FcOk("commit"), FcOk("count"),
                        FcRaised("set"), FcOk("rollback")>>)
        ELSE FcResult(committed, nid,
                      RedisSet(c, TaskCountKey, BytesOfInt(Len(committed))),
                      200, <<"Task deleted successfully">>,
                      <<FcOk("query"), FcOk("commit"), FcOk("count"), FcOk("set")>>)

\* get_stats: the cached count when there is one, else the counted rows,
\* cached on the way; then the completed rows are counted
fc_get_stats(st, nid, c, f) ==
    LET failed == <<"Failed to get statistics">>
        cached_count == RedisGet(c, TaskCountKey)
        completed_tasks == Cardinality({i \in 1..Len(st) : st[i].completed})
        stats(total_tasks) ==
            <<[total_tasks |-> total_tasks, completed_tasks |-> completed_tasks,
               pending_tasks |-> total_tasks - completed_tasks]>>
    IN  IF f["get"] = "raise"
        THEN FcResult(st, nid, c, 500, failed, <<FcRaised("get")>>)
        ELSE IF f["count"] = "raise"
        THEN FcResult(st, nid, c, 500, failed, <<FcOk("get"), FcRaised("count")>>)
        ELSE IF Truthy(cached_count)
        THEN FcResult(st, nid, c, 200, stats(IntOfBytes(cached_count)),
                      <<FcOk("get"), FcOk("count")>>)
        ELSE IF f["set"] = "raise"
        THEN FcResult(st, nid, c, 500, failed,
                      <<FcOk("get"), FcOk("count"), FcRaised("set")>>)
        ELSE FcResult(st, nid, RedisSet(c, TaskCountKey, BytesOfInt(Len(st))),
                      200, stats(Len(st)),
                      <<FcOk("get"), FcOk("count"), FcOk("set")>>)

(***************************************************************************)
(* SpecTasks: flask-cicd, one request at a time                            *)
(***************************************************************************)
FcBodies ==
    {Body({}, "", "", FALSE),
     Body({"title"}, "A", "", FALSE),
     Body({"title", "description"}, "B", "D", FALSE),
     Body({"completed"}, "", "", TRUE)}

FcAnswered(kind, id, input, r) ==
    /\ resp = NoResp
    /\ store' = r.store
    /\ nextId' = r.nextId
    /\ cache' = r.cache
    /\ resp' = [kind |-> kind, id |-> id, input |-> input, status |-> r.status,
                data |-> r.data, ops |-> r.ops]
    /\ UNCHANGED <<now, missedInval, reqs, app>>

\* GET /api/tasks
FcGetTasks ==
    /\ app = "flask-cicd"
    /\ \E f \in FcFaults :
          FcAnswered("get_tasks", 0, NoBody, fc_get_tasks(store, nextId, cache, f))

\* POST /api/tasks
FcCreateTask ==
    /\ app = "flask-cicd"
    /\ nextId <= MaxItems
    /\ \E data \in FcBodies, f \in FcFaults :
          FcAnswered("create_task", nextId, data,
                     fc_create_task(store, nextId, cache, data, now, f))

\* PUT /api/tasks/<task_id>
FcUpdateTask ==
    /\ app = "flask-cicd"
    /\ \E task_id \in Ids, data \in FcBodies, f \in FcFaults :
          FcAnswered("update_task", task_id, data,
                     fc_update_task(store, nextId, cache, task_id, data, f))

\* DELETE /api/tasks/<task_id>
FcDeleteTask ==
    /\ app = "flask-cicd"
    /\ \E task_id \in Ids, f \in FcFaults :
          FcAnswered("delete_task", task_id, NoBody,
                     fc_delete_task(store, nextId, cache, task_id, f))

\* GET /api/stats
FcGetStats ==
    /\ app = "flask-cicd"
    /\ \E f \in FcFaults :
          FcAnswered("get_stats", 0, NoBody, fc_get_stats(store, nextId, cache, f))

InitTasks == InitApp("flask-cicd")

NextTasks ==
    FcGetTasks \/ FcCreateTask \/ FcUpdateTask \/ FcDeleteTask \/ FcGetStats \/ Deliver

SpecTasks == InitTasks /\ [][NextTasks]_vars

(***************************************************************************)
(* C19: a create_task or delete_task whose commit succeeded and whose      *)
(* redis_client.set then raised still reports success: 201 with the        *)
(* created task, 200 with the deletion message.                            *)
(***************************************************************************)
Did(r, op, ok) == \E i \in 1..Len(r.ops) : r.ops[i].op = op /\ r.ops[i].ok = ok

SetRaisedAfterCommit ==
    /\ resp.kind \in {"create_task", "delete_task"}
    /\ Did(resp, "commit", TRUE)
    /\ Did(resp, "set", FALSE)

C19_CacheFailureNonFatal ==
    SetRaisedAfterCommit =>
        IF resp.kind = "create_task"
        THEN /\ resp.status = 201
             /\ resp.data[1].id = resp.id
        ELSE /\ resp.status = 200
             /\ resp.data = <<"Task deleted successfully">>

\* the write is durable although the request answered 500
C19_CommittedYet500 ==
    /\ SetRaisedAfterCommit
    /\ resp.status = 500
    /\ resp.kind = "create_task" => QueryGet(store, resp.id) # {}
    /\ resp.kind = "delete_task" => QueryGet(store, resp.id) = {}

(***************************************************************************)
(* flask-postgres: users in a SQL table with unique emails.  In SpecPg the *)
(* variable store holds the committed rows of the table.                   *)
(***************************************************************************)
\* User.to_dict of flask-postgres
pg_to_dict(user) == [id |-> user.id, name |-> user.name, email |-> user.email]

PgResult(st, nid, status, data, ops) ==
    [store |-> st, nextId |-> nid, status |-> status, data |-> data, ops |-> ops]

\* User.query.filter_by(email=email), as the indexes found
FilterByEmail(st, email) == {i \in 1..Len(st) : st[i].email = email}

\* health_check
pg_health_check(st, nid, f) ==
    IF f[1] = "raise"
    THEN PgResult(st, nid, 500, <<"unhealthy">>, <<FcRaised("query")>>)
    ELSE PgResult(st, nid, 200, <<"healthy">>, <<FcOk("query")>>)

\* get_users
pg_get_users(st, nid, f) ==
    IF f[1] = "raise"
    THEN PgResult(st, nid, 500, <<"Internal server error">>, <<FcRaised("query")>>)
    ELSE PgResult(st, nid, 200, [i \in 1..Len(st) |-> pg_to_dict(st[i])],
                  <<FcOk("query")>>)

\* create_user: f[1] is the outcome of the query by email, f[2] of the
\* commit, f[3] of the reload of the committed row that user.name triggers
pg_create_user(st, nid, data, f) ==
    LET failed == <<"Internal server error">>
    IN  IF ~({"name", "email"} \subseteq data.has) \/ data.name = "" \/ data.email = ""
        THEN PgResult(st, nid, 400, <<"Name and email are required">>, <<>>)
        ELSE IF f[1] = "raise"
        THEN PgResult(st, nid, 500, failed, <<FcRaised("query"), FcOk("rollback")>>)
        ELSE IF FilterByEmail(st, data.email) # {}
        THEN PgResult(st, nid, 409, <<"User with this email already exists">>,
                      <<FcOk("query")>>)
        ELSE LET user == [id |-> nid, name |-> data.name, email |-> data.email]
             IN  IF f[2] = "raise"
                 THEN PgResult(st, nid, 500, failed,
                               <<FcOk("query"), FcRaised("commit"), FcOk("rollback")>>)
                 ELSE IF f[3] = "raise"
                 THEN PgResult(Append(st, user), nid + 1, 500, failed,
                               <<FcOk("query"), FcOk("commit"), FcRaised("refresh"),
                                 FcOk("rollback")>>)
                 ELSE PgResult(Append(st, user), nid + 1, 201, <<pg_to_dict(user)>>,
                               <<FcOk("query"), FcOk("commit"), FcOk("refresh")>>)

\* get_user: the NotFound of get_or_404 and every other exception of the
\* lookup end in the same except clause, which answers 404
pg_get_user(st, nid, user_id, f) ==
    IF f[1] = "raise"
    THEN PgResult(st, nid, 404, <<"User not found">>, <<FcRaised("query")>>)
    ELSE IF QueryGet(st, user_id) = {}
    THEN PgResult(st, nid, 404, <<"User not found">>, <<FcOk("query")>>)
    ELSE PgResult(st, nid, 200,
                  <<pg_to_dict(st[CHOOSE i \in QueryGet(st, user_id) : TRUE])>>,
                  <<FcOk("query")>>)

(***************************************************************************)
(* SpecPg: flask-postgres, one request at a time                           *)
(***************************************************************************)
PgBodies ==
    {UserCreate(n, e) : n \in Names, e \in Emails}
        \cup {[has |-> {"name"}, name |-> "A", email |-> ""],
              UserCreate("", "a@x.org")}

PgAnswered(kind, id, input, r) ==
    /\ resp = NoResp
    /\ store' = r.store
    /\ nextId' = r.nextId
    /\ resp' = [kind |-> kind, id |-> id, input |-> input, status |-> r.status,
                data |-> r.data, ops |-> r.ops]
    /\ UNCHANGED <<cache, now, missedInval, reqs, app>>

\* GET /health
PgHealthCheck ==
    /\ app = "flask-postgres"
    /\ \E f \in Faults :
          PgAnswered("health_check", 0, NoBody, pg_health_check(store, nextId, f))

\* GET /users
PgGetUsers ==
    /\ app = "flask-postgres"
    /\ \E f \in Faults :
          PgAnswered("get_users", 0, NoBody, pg_get_users(store, nextId, f))

\* POST /users
PgCreateUser ==
    /\ app = "flask-postgres"
    /\ nextId <= MaxItems
    /\ \E data \in PgBodies, f \in Faults :
          PgAnswered("create_user", nextId, data,
                     pg_create_user(store, nextId, data, f))

\* GET /users/<user_id>
PgGetUser ==
    /\ app = "flask-postgres"
    /\ \E user_id \in Ids, f \in Faults :
          PgAnswered("get_user", user_id, NoBody,
                     pg_get_user(store, nextId, user_id, f))

InitPg == InitApp("flask-postgres")

NextPg == PgHealthCheck \/ PgGetUsers \/ PgCreateUser \/ PgGetUser \/ Deliver

SpecPg == InitPg /\ [][NextPg]_vars

(***************************************************************************)
(* C20: GET /users/<id> answers 404 exactly when the lookup reached the    *)
(* table and the table holds no user with that id; a lookup that failed    *)
(* is answered with a 5xx, never with 404.                                 *)
(***************************************************************************)
Looked == resp.kind = "get_user"

C20_NotFoundVsUnavailable ==
    Looked =>
        /\ resp.status = 404 <=>
               (Did(resp, "query", TRUE) /\ QueryGet(store, resp.id) = {})
        /\ Did(resp, "query", FALSE) => resp.status >= 500

\* the lookup of a user that exists failed, and the answer says there is none
C20_FailureSaidNotFound ==
    /\ Looked
    /\ Did(resp, "query", FALSE)
    /\ QueryGet(store, resp.id) # {}
    /\ resp.status = 404

(***************************************************************************)
(* fastapi-redis: users kept in Redis only, one key "user:{id}" per user   *)
(* and the counter "user_counter".  In SpecRedis the variable cache holds  *)
(* the Redis database.                                                     *)
(***************************************************************************)
UserExpiry == 3600

UserCounterKey == <<"user_counter">>

\* the glob given to r.keys
UserPattern == <<"user", ":", "*">>

\* r.incr(key): the value after the increment; a missing key counts as 0
RedisIncr(c, key) ==
    IF key \in DOMAIN c THEN IntOfBytes(c[key].val) + 1 ELSE 1

\* r.expire(key, seconds)
RedisExpire(c, key, seconds) ==
    [k \in DOMAIN c |-> IF k = key THEN [val |-> c[k].val, ttl |-> seconds] ELSE c[k]]

\* User(**json.loads(user_data))
LoadUser(text) == text.v[1]

sample_users ==
    <<[name |-> "Alice Johnson", email |-> "alice@example.com"],
      [name |-> "Bob Smith", email |-> "bob@example.com"],
      [name |-> "Charlie Brown", email |-> "charlie@example.com"]>>

\* startup_event of fastapi-redis: the sample users, stored without expiry
fr_startup_event(t) ==
    [k \in {UserCounterKey} \cup {UserKey(i) : i \in 1..Len(sample_users)} |->
        IF k = UserCounterKey
        THEN [val |-> BytesOfInt(Len(sample_users))]
        ELSE [val |-> DumpUser(User(k[3], sample_users[k[3]].name,
                                    sample_users[k[3]].email, IsoFormat(t)))]]

\* get_users: the order of r.keys is unspecified, the answer is recorded as
\* the set of its users; f[1] is the outcome of r.keys, f[2] of the r.get calls
fr_get_users(c, f) ==
    IF f[1] = "raise"
    THEN FcResult(<<>>, 0, c, 500, <<"Cache error">>, <<FcRaised("keys")>>)
    ELSE IF RedisKeys(c, UserPattern) # {} /\ f[2] = "raise"
    THEN FcResult(<<>>, 0, c, 500, <<"Cache error">>, <<FcOk("keys"), FcRaised("get")>>)
    ELSE FcResult(<<>>, 0, c, 200,
                  {LoadUser(c[k].val) : k \in RedisKeys(c, UserPattern)},
                  <<FcOk("keys")>>)

\* create_user: f[1] is the outcome of r.incr, f[2] of r.set, f[3] of r.expire
fr_create_user(c, user, t, f) ==
    LET failed == <<"Cache error">>
        user_id == RedisIncr(c, UserCounterKey)
        counted == RedisSet(c, UserCounterKey, BytesOfInt(user_id))
        user_data == User(user_id, user.name, user.email, IsoFormat(t))
        stored == RedisSet(counted, UserKey(user_id), DumpUser(user_data))
    IN  IF ~UserCreateOk(user)
        THEN FcResult(<<>>, 0, c, 422, <<>>, <<>>)
        ELSE IF f[1] = "raise"
        THEN FcResult(<<>>, 0, c, 500, failed, <<FcRaised("incr")>>)
        ELSE IF f[2] = "raise"
        THEN FcResult(<<>>, user_id, counted, 500, failed,
                      <<FcOk("incr"), FcRaised("set")>>)
        ELSE IF f[3] = "raise"
        THEN FcResult(<<>>, user_id, stored, 500, failed,
                      <<FcOk("incr"), FcOk("set"), FcRaised("expire")>>)
        ELSE FcResult(<<>>, user_id,
                      RedisExpire(stored, UserKey(user_id), UserExpiry),
                      200, <<user_data>>,
                      <<FcOk("incr"), FcOk("set"), FcOk("expire")>>)

\* get_user: the HTTPException(404) is raised inside the try and is caught
\* by `except Exception`, which raises HTTPException(500)
fr_get_user(c, user_id, f) ==
    IF f[1] = "raise"
    THEN FcResult(<<>>, user_id, c, 500, <<"Cache error">>, <<FcRaised("get")>>)
    ELSE IF ~Truthy(RedisGet(c, UserKey(user_id)))
    THEN FcResult(<<>>, user_id, c, 500, <<"Cache error">>, <<FcOk("get")>>)
    ELSE FcResult(<<>>, user_id, c, 200,
                  <<LoadUser(RedisGet(c, UserKey(user_id)))>>, <<FcOk("get")>>)

\* delete_user: as get_user, the 404 for `not deleted` becomes a 500
fr_delete_user(c, user_id, f) ==
    IF f[1] = "raise"
    THEN FcResult(<<>>, user_id, c, 500, <<"Cache error">>, <<FcRaised("delete")>>)
    ELSE IF UserKey(user_id) \notin DOMAIN c
    THEN FcResult(<<>>, user_id, c, 500, <<"Cache error">>, <<FcOk("delete")>>)
    ELSE FcResult(<<>>, user_id, RedisDelete(c, {UserKey(user_id)}), 200,
                  <<"deleted successfully">>, <<FcOk("delete")>>)

(***************************************************************************)
(* SpecRedis: fastapi-redis after its startup, one request at a time       *)
(***************************************************************************)
FrIds == 1..(Len(sample_users) + MaxItems + 1)

FrAnswered(kind, id, input, r) ==
    FcAnswered(kind, id, input, [r EXCEPT !.store = store, !.nextId = nextId])

\* GET /users
FrGetUsers ==
    /\ app = "fastapi-redis"
    /\ \E f \in Faults : FrAnswered("get_users", 0, NoBody, fr_get_users(cache, f))

\* POST /users
FrCreateUser ==
    /\ app = "fastapi-redis"
    /\ RedisIncr(cache, UserCounterKey) <= Len(sample_users) + MaxItems
    /\ \E user \in UserBodies, f \in Faults :
          FrAnswered("create_user", RedisIncr(cache, UserCounterKey), user,
                     fr_create_user(cache, user, now, f))

\* GET /users/{user_id}
FrGetUser ==
    /\ app = "fastapi-redis"
    /\ \E user_id \in FrIds, f \in Faults :
          FrAnswered("get_user", user_id, NoBody, fr_get_user(cache, user_id, f))

\* DELETE /users/{user_id}
FrDeleteUser ==
    /\ app = "fastapi-redis"
    /\ \E user_id \in FrIds, f \in Faults :
          FrAnswered("delete_user", user_id, NoBody, fr_delete_user(cache, user_id, f))

InitRedis ==
    /\ app = "fastapi-redis"
    /\ store = <<>>
    /\ nextId = 1
    /\ cache = fr_startup_event(0)
    /\ now = 0
    /\ resp = NoResp
    /\ missedInval = FALSE
    /\ reqs = [r \in 1..MaxReqs |-> Idle]

NextRedis == FrGetUsers \/ FrCreateUser \/ FrGetUser \/ FrDeleteUser \/ Deliver

SpecRedis == InitRedis /\ [][NextRedis]_vars

(***************************************************************************)
(* SpecMissing: fastapi-redis or flask-cicd, one request at a time         *)
(***************************************************************************)
InitMissing == InitRedis \/ InitTasks

NextMissing == NextRedis \/ NextTasks

SpecMissing == InitMissing /\ [][NextMissing]_vars

(***************************************************************************)
(* C21: a request by id whose lookup worked and found no entity is         *)
(* answered 404, not 500: GET and DELETE /users/{id} of fastapi-redis, PUT *)
(* and DELETE /api/tasks/<id> of flask-cicd.                               *)
(***************************************************************************)
ById ==
    IF app = "fastapi-redis" THEN {"get_user", "delete_user"}
    ELSE {"update_task", "delete_task"}

\* the request named an id that is not stored, and its lookup did not fail
MissedEntity ==
    /\ resp.kind \in ById
    /\ \A i \in 1..Len(resp.ops) : resp.ops[i].ok
    /\ IF app = "fastapi-redis"
       THEN UserKey(resp.id) \notin DOMAIN cache /\ resp.status # 200
       ELSE QueryGet(store, resp.id) = {} /\ resp.status # 200

C21_MissingIdIs404 == MissedEntity => resp.status = 404

\* both programs answer a missing id with 500
C21_MissingIdIs500 == MissedEntity /\ resp.status = 500

(***************************************************************************)
(* django-blog: posts saved through Post.save, shown by PostDetailView     *)
(* behind cache_page.  In SpecBlog the variable store holds the rows of    *)
(* the posts table and cache the page cache.  published_at is <<>> for     *)
(* None and <<t>> for a timestamp.                                         *)
(***************************************************************************)
CachePageTimeout == 900

\* the cache key of the page of a post
PageKey(slug) == <<"page", ":", slug>>

Statuses == {"draft", "published"}

\* Post.objects.filter(slug=slug), as the indexes found
PostsBySlug(st, slug) == {i \in 1..Len(st) : st[i].slug = slug}

\* mutant: save without the `elif self.status == 'draft'` branch
Post_save_KeepsDate(post, t) ==
    IF post.status = "published" /\ post.published_at = <<>>
    THEN [post EXCEPT !.published_at = <<t>>]
    ELSE post

\* Post.save: the fields of the instance that super().save() writes
Post_save(post, t) ==
    IF post.status = "published" /\ post.published_at = <<>>
    THEN [post EXCEPT !.published_at = <<t>>]
    ELSE IF post.status = "draft"
    THEN [post EXCEPT !.published_at = <<>>]
    ELSE post

\* a new Post(slug=..., status=...) is saved; the slug is unique
blog_create_post(st, c, slug, status, t) ==
    IF PostsBySlug(st, slug) # {}
    THEN FcResult(st, 0, c, 500, <<"IntegrityError">>, <<>>)
    ELSE LET post == Post_save([slug |-> slug, status |-> status,
                                published_at |-> <<>>], t)
         IN  FcResult(Append(st, post), 0, c, 200, <<post>>, <<>>)

\* the post with this slug is loaded, its status is set, and it is saved
blog_save_post(st, c, slug, status, t) ==
    IF PostsBySlug(st, slug) = {}
    THEN FcResult(st, 0, c, 404, <<>>, <<>>)
    ELSE LET i == CHOOSE j \in PostsBySlug(st, slug) : TRUE
             post == Post_save([st[i] EXCEPT !.status = status], t)
         IN  FcResult([st EXCEPT ![i] = post], 0, c, 200, <<post>>, <<>>)

\* PostDetailView.dispatch behind cache_page(60 * 15): a cached page is
\* answered as it is; else the view runs on the published posts, and its
\* 200 is cached
blog_post_detail(st, c, slug, t) ==
    LET key == PageKey(slug)
        cached == RedisGet(c, key)
        published == {i \in PostsBySlug(st, slug) : st[i].status = "published"}
    IN  IF Truthy(cached)
        THEN FcResult(st, 0, c, 200, cached, <<FcOk("cache")>>)
        ELSE IF published = {}
        THEN FcResult(st, 0, c, 404, <<>>, <<FcOk("query")>>)
        ELSE LET page == <<st[CHOOSE i \in published : TRUE]>>
             IN  FcResult(st, 0, RedisSetex(c, key, CachePageTimeout, page, t, t),
                          200, page, <<FcOk("query")>>)

(***************************************************************************)
(* SpecBlog: django-blog, one request at a time, and time passing          *)
(***************************************************************************)
BlogAnswered(kind, slug, status, r) ==
    FcAnswered(kind, slug, status, [r EXCEPT !.nextId = nextId])

\* a post is added in the admin
BlogCreatePost ==
    /\ app = "django-blog"
    /\ \E slug \in Names, status \in Statuses :
          BlogAnswered("create_post", slug, status,
                       blog_create_post(store, cache, slug, status, now))

\* a post is changed in the admin
BlogSavePost ==
    /\ app = "django-blog"
    /\ \E slug \in Names, status \in Statuses :
          BlogAnswered("save_post", slug, status,
                       blog_save_post(store, cache, slug, status, now))

\* GET /post/<slug>/
BlogPostDetail ==
    /\ app = "django-blog"
    /\ \E slug \in Names :
          BlogAnswered("post_detail", slug, "",
                       blog_post_detail(store, cache, slug, now))

InitBlog == InitApp("django-blog")

NextBlog == BlogCreatePost \/ BlogSavePost \/ BlogPostDetail \/ Tick \/ Deliver

SpecBlog == InitBlog /\ [][NextBlog]_vars

(***************************************************************************)
(* C22: every stored post has published_at None when it is a draft and set *)
(* when it is published; a save of a published post as published leaves    *)
(* published_at as it was, and a save that publishes a draft sets it to    *)
(* the time of that save.                                                  *)
(***************************************************************************)
PostOf(st, slug) == st[CHOOSE i \in PostsBySlug(st, slug) : TRUE]

Consistent(post) ==
    /\ post.status = "draft" => post.published_at = <<>>
    /\ post.status = "published" => post.published_at # <<>>

Saved == resp'.kind = "save_post" /\ resp'.status = 200

C22_PublishedAtFollowsStatus ==
    [][/\ \A i \in 1..Len(store') : Consistent(store'[i])
       /\ Saved =>
            LET old == PostOf(store, resp'.id)
                new == PostOf(store', resp'.id)
            IN  /\ new.status = resp'.input
                /\ (old.status = "published" /\ new.status = "published")
                      => new.published_at = old.published_at
                /\ (old.status = "draft" /\ new.status = "published")
                      => new.published_at = <<now>>]_vars

\* a post published at 0 and shown then, returned to draft since, is
\* published again later
C22_Witness ==
    /\ resp.kind = "save_post" /\ resp.status = 200
    /\ resp.input = "published"
    /\ now > 0
    /\ PostOf(store, resp.id).published_at = <<now>>
    /\ PageKey(resp.id) \in DOMAIN cache
    /\ cache[PageKey(resp.id)].val[1].published_at = <<0>>

(***************************************************************************)
(* C30: a request for the page of a post that is a draft is answered 404,  *)
(* never with the page, also when its page was served while published.     *)
(***************************************************************************)
DraftRequested ==
    /\ resp.kind = "post_detail"
    /\ PostsBySlug(store, resp.id) # {}
    /\ PostOf(store, resp.id).status = "draft"

C30_DraftNeverServed == DraftRequested => resp.status = 404

\* the page of a draft is answered from the cache
C30_DraftServed == DraftRequested /\ resp.status = 200

(***************************************************************************)
(* Task Manager utils: PerformanceTimer and log_request.  In SpecTimer the *)
(* variable store holds the timer objects, one per with statement; a time  *)
(* is <<>> for None and <<t>> for a float.                                 *)
(***************************************************************************)
\* time.time(): the seconds since the epoch, a positive number
time_time(t) == t + TickSeconds

\* `if x` for an Optional[float]
Falsy(x) == x = <<>> \/ x = <<0>>

\* PerformanceTimer.__init__
PerformanceTimer_init(name) ==
    [name |-> name, start_time |-> <<>>, end_time |-> <<>>, pc |-> "constructed"]

\* PerformanceTimer.__enter__
PerformanceTimer_enter(timer, t) ==
    [timer EXCEPT !.start_time = <<time_time(t)>>, !.pc = "entered"]

\* mutant: __exit__ returns True, which tells the with statement to drop
\* the exception
PerformanceTimer_exit_Suppresses(timer, exc_type, t) ==
    [timer |-> [timer EXCEPT !.end_time = <<time_time(t)>>, !.pc = "exited"],
     returned |-> TRUE]

\* PerformanceTimer.__exit__: the timer after it and the value returned,
\* None, which is false
PerformanceTimer_exit(timer, exc_type, t) ==
    [timer |-> [timer EXCEPT !.end_time = <<time_time(t)>>, !.pc = "exited"],
     returned |-> FALSE]

\* PerformanceTimer.duration
duration(timer) ==
    IF ~Falsy(timer.start_time) /\ ~Falsy(timer.end_time)
    THEN <<timer.end_time[1] - timer.start_time[1]>>
    ELSE <<>>

\* what a block or a handler does: it returns a value or raises an exception
Endings == {[how |-> "returned", what |-> v] : v \in Names}
              \cup {[how |-> "raised", what |-> "ValueError"]}

\* the with statement leaves its block: __exit__ runs, and the exception of
\* the block goes on unless __exit__ returned a true value
with_exit(timer, ending, t) ==
    LET x == PerformanceTimer_exit(timer, ending.how = "raised", t)
    IN  [timer |-> x.timer,
         ending |-> IF ending.how = "raised" /\ x.returned
                    THEN [how |-> "returned", what |-> ""] ELSE ending]

\* the wrapper of log_request around a handler with this ending: the try
\* block ends in `return result`, the except clause in a bare `raise`
log_request(ending) ==
    IF ending.how = "returned"
    THEN [how |-> "returned", what |-> ending.what]
    ELSE [how |-> "raised", what |-> ending.what]

(***************************************************************************)
(* SpecTimer: timers used in with statements, handlers wrapped by          *)
(* log_request, and time passing                                           *)
(***************************************************************************)
TimerAnswered(kind, i, ending, st, out) ==
    /\ resp = NoResp
    /\ store' = st
    /\ resp' = [kind |-> kind, id |-> i, input |-> ending, status |-> out.how,
                data |-> out.what]
    /\ UNCHANGED <<nextId, cache, now, missedInval, reqs, app>>

\* `with PerformanceTimer(name) as timer:` is reached
TimerEnter ==
    /\ app = "task-manager-utils"
    /\ resp = NoResp
    /\ Len(store) < MaxItems
    /\ \E name \in Names :
          store' = Append(store, PerformanceTimer_enter(PerformanceTimer_init(name), now))
    /\ UNCHANGED <<nextId, cache, now, resp, missedInval, reqs, app>>

\* the block of a with statement ends
TimerExit ==
    /\ app = "task-manager-utils"
    /\ \E i \in 1..Len(store), ending \in Endings :
          /\ store[i].pc = "entered"
          /\ LET x == with_exit(store[i], ending, now)
             IN  TimerAnswered("with", i, ending, [store EXCEPT ![i] = x.timer],
                               x.ending)

\* a handler decorated with log_request is called
LogRequest ==
    /\ app = "task-manager-utils"
    /\ \E ending \in Endings :
          TimerAnswered("log_request", 0, ending, store, log_request(ending))

InitTimer == InitApp("task-manager-utils")

NextTimer == TimerEnter \/ TimerExit \/ LogRequest \/ Tick \/ Deliver

SpecTimer == InitTimer /\ [][NextTimer]_vars

(***************************************************************************)
(* C23: a timer inside its block has start_time set, end_time None and     *)
(* duration None; a timer whose block was left, by return or by exception, *)
(* has end_time >= start_time and a duration; the with statement and the   *)
(* wrapper of log_request end as the block or handler ended: the same      *)
(* result, or the same exception.                                          *)
(***************************************************************************)
C23_TimerStopsAndPropagates ==
    /\ \A i \in 1..Len(store) :
          /\ store[i].start_time # <<>>
          /\ store[i].pc = "entered" =>
                store[i].end_time = <<>> /\ duration(store[i]) = <<>>
          /\ store[i].pc = "exited" =>
                /\ store[i].end_time # <<>>
                /\ store[i].end_time[1] >= store[i].start_time[1]
                /\ duration(store[i]) # <<>>
    /\ resp.kind \in {"with", "log_request"} =>
          /\ resp.status = resp.input.how
          /\ resp.data = resp.input.what
    /\ resp.kind = "with" => store[resp.id].pc = "exited"

\* a block left by an exception some time after it was entered
C23_Witness ==
    /\ resp.kind = "with"
    /\ resp.status = "raised"
    /\ duration(store[resp.id]) # <<>>
    /\ duration(store[resp.id])[1] > 0

(***************************************************************************)
(* Task Manager: the routes in the order main.py registers them, and the   *)
(* dispatch of a request to the first route that matches.  A path is the   *)
(* sequence of its segments.                                               *)
(***************************************************************************)
\* a path segment: text, or the decimal text of an integer
Lit(text) == [isnum |-> FALSE, text |-> text, num |-> 0]
Num(n) == [isnum |-> TRUE, text |-> "", num |-> n]

Route(method, pattern, endpoint) ==
    [method |-> method, pattern |-> pattern, endpoint |-> endpoint]

\* app.routes
routes ==
    <<Route("GET", <<>>, "root"),
      Route("GET", <<"health">>, "health_check"),
      Route("GET", <<"tasks">>, "get_tasks"),
      Route("POST", <<"tasks">>, "create_task"),
      Route("GET", <<"tasks", "{task_id}">>, "get_task"),
      Route("PUT", <<"tasks", "{task_id}">>, "update_task"),
      Route("DELETE", <<"tasks", "{task_id}">>, "delete_task"),
      Route("PUT", <<"tasks", "{task_id}", "complete">>, "complete_task"),
      Route("PUT", <<"tasks", "{task_id}", "uncomplete">>, "uncomplete_task"),
      Route("GET", <<"tasks", "completed">>, "get_completed_tasks"),
      Route("GET", <<"tasks", "pending">>, "get_pending_tasks")>>

\* the path regex of a route: a parameter takes any one segment, a literal
\* takes itself
PathMatches(pattern, path) ==
    /\ Len(pattern) = Len(path)
    /\ \A i \in 1..Len(path) :
          \/ pattern[i] = "{task_id}"
          \/ ~path[i].isnum /\ path[i].text = pattern[i]

\* the endpoint of the first route that matches the method and the path
Dispatch(method, path) ==
    LET hits == {i \in 1..Len(routes) :
                    routes[i].method = method /\ PathMatches(routes[i].pattern, path)}
    IN  IF hits = {} THEN "none"
        ELSE routes[CHOOSE i \in hits : \A j \in hits : i <= j].endpoint

TmResult(tasks, status, data) == [tasks |-> tasks, status |-> status, data |-> data]

\* complete_task and uncomplete_task
tm_set_completed(tasks, task_id, completed) ==
    IF FindTask(tasks, task_id) = {}
    THEN TmResult(tasks, 404, <<>>)
    ELSE LET i == CHOOSE j \in FindTask(tasks, task_id) : TRUE
             task == [tasks[i] EXCEPT !.completed = completed]
         IN  TmResult([tasks EXCEPT ![i] = task], 200, <<task>>)

get_completed_tasks(tasks) == SelectSeq(tasks, LAMBDA t : t.completed)

get_pending_tasks(tasks) == SelectSeq(tasks, LAMBDA t : ~t.completed)

\* a GET request: the endpoint it is dispatched to and the answer; the
\* parameter task_id: int of get_task rejects a segment that is no integer
tm_get(tasks, task_counter, path) ==
    LET endpoint == Dispatch("GET", path)
    IN  [endpoint |-> endpoint,
         r |-> IF endpoint = "get_tasks" THEN TmResult(tasks, 200, tasks)
               ELSE IF endpoint = "get_task"
               THEN IF ~path[2].isnum THEN TmResult(tasks, 422, <<>>)
                    ELSE LET g == tm_get_task(tasks, task_counter, path[2].num)
                         IN  TmResult(tasks, g.status, g.data)
               ELSE IF endpoint = "get_completed_tasks"
               THEN TmResult(tasks, 200, get_completed_tasks(tasks))
               ELSE IF endpoint = "get_pending_tasks"
               THEN TmResult(tasks, 200, get_pending_tasks(tasks))
               ELSE TmResult(tasks, 404, <<>>)]

(***************************************************************************)
(* SpecRoutes: Task Manager, one request at a time                         *)
(***************************************************************************)
CompletedPath == <<Lit("tasks"), Lit("completed")>>
PendingPath == <<Lit("tasks"), Lit("pending")>>

GetPaths ==
    {<<Lit("tasks")>>, CompletedPath, PendingPath, <<Lit("tasks"), Lit("x"), Lit("y")>>}
        \cup {<<Lit("tasks"), Num(n)>> : n \in TmIds}

\* GET <path>
TmGet ==
    /\ app = "task-manager"
    /\ \E path \in GetPaths :
          LET g == tm_get(store, nextId - 1, path)
          IN  Answered(g.endpoint, 0, path, g.r.tasks, nextId, g.r.status, g.r.data)

\* PUT /tasks/{task_id}/complete
TmCompleteTask ==
    /\ app = "task-manager"
    /\ \E task_id \in TmIds :
          LET r == tm_set_completed(store, task_id, TRUE)
          IN  Answered("complete_task", task_id, NoBody, r.tasks, nextId,
                       r.status, r.data)

\* PUT /tasks/{task_id}/uncomplete
TmUncompleteTask ==
    /\ app = "task-manager"
    /\ \E task_id \in TmIds :
          LET r == tm_set_completed(store, task_id, FALSE)
          IN  Answered("uncomplete_task", task_id, NoBody, r.tasks, nextId,
                       r.status, r.data)

InitRoutes == InitApp("task-manager")

NextRoutes ==
    \/ TmGet \/ TmCreateTask \/ TmUpdateTask \/ TmDeleteTask
    \/ TmCompleteTask \/ TmUncompleteTask \/ Deliver

SpecRoutes == InitRoutes /\ [][NextRoutes]_vars

(***************************************************************************)
(* C24: GET /tasks/completed is dispatched to get_completed_tasks and      *)
(* answers 200 with exactly the completed tasks, GET /tasks/pending to     *)
(* get_pending_tasks with exactly the others.                              *)
(***************************************************************************)
GetEndpoints ==
    {"get_tasks", "get_task", "get_completed_tasks", "get_pending_tasks", "none"}

Asked(path) == resp.kind \in GetEndpoints /\ resp.input = path

C24_CompletedAndPendingListed ==
    /\ Asked(CompletedPath) =>
          /\ resp.kind = "get_completed_tasks"
          /\ resp.status = 200
          /\ resp.data = get_completed_tasks(store)
    /\ Asked(PendingPath) =>
          /\ resp.kind = "get_pending_tasks"
          /\ resp.status = 200
          /\ resp.data = get_pending_tasks(store)

\* GET /tasks/completed is taken by get_task and rejected
C24_TakenByGetTask ==
    Asked(CompletedPath) /\ resp.kind = "get_task" /\ resp.status = 422

(***************************************************************************)
(* Task Manager utils: paginate_tasks.  In SpecPaginate the variable store *)
(* holds the list given to the function.                                   *)
(***************************************************************************)
\* seq[start:end] for 0 <= start
Slice(seq, start, end) == SubSeq(seq, Min(start, Len(seq)) + 1, Min(end, Len(seq)))

\* mutant: start_index = page * per_page
paginate_tasks_FromNext(tasks, page, per_page) ==
    LET total == Len(tasks)
        start_index == page * per_page
        end_index == start_index + per_page
    IN  [tasks |-> Slice(tasks, start_index, end_index),
         total |-> total, page |-> page, per_page |-> per_page,
         total_pages |-> (total + per_page - 1) \div per_page,
         has_next |-> end_index < total,
         has_prev |-> page > 1,
         arg |-> tasks]

\* paginate_tasks: the dictionary returned, and in arg the list that was
\* passed as it is after the call
paginate_tasks(tasks, page, per_page) ==
    LET total == Len(tasks)
        start_index == (page - 1) * per_page
        end_index == start_index + per_page
    IN  [tasks |-> Slice(tasks, start_index, end_index),
         total |-> total, page |-> page, per_page |-> per_page,
         total_pages |-> (total + per_page - 1) \div per_page,
         has_next |-> end_index < total,
         has_prev |-> page > 1,
         arg |-> tasks]

(***************************************************************************)
(* SpecPaginate: paginate_tasks applied to lists of up to MaxItems tasks   *)
(***************************************************************************)
\* the lists of tasks with ids 1, 2, ... in order
TaskLists ==
    UNION {{[i \in 1..n |-> [id |-> i, title |-> titles[i]]] :
               titles \in [1..n -> Names]} : n \in 0..MaxItems}

PageNumbers == 1..(MaxItems + 2)
PerPages == 1..(MaxItems + 3)

InitPaginate ==
    /\ app = "paginate_tasks"
    /\ store \in TaskLists
    /\ nextId = 1
    /\ cache = EmptyCache
    /\ now = 0
    /\ resp = NoResp
    /\ missedInval = FALSE
    /\ reqs = [r \in 1..MaxReqs |-> Idle]

\* paginate_tasks(tasks, page, per_page) is called
Paginate ==
    /\ app = "paginate_tasks"
    /\ \E page \in PageNumbers, per_page \in PerPages :
          LET r == paginate_tasks(store, page, per_page)
          IN  Answered("paginate_tasks", 0,
                       [tasks |-> store, page |-> page, per_page |-> per_page],
                       r.arg, nextId, 200, <<r>>)

NextPaginate == Paginate \/ Deliver

SpecPaginate == InitPaginate /\ [][NextPaginate]_vars

(***************************************************************************)
(* C25: for page >= 1 and per_page >= 1, the pages 1..total_pages joined   *)
(* in order are the list and no task is on two pages; total_pages is the   *)
(* ceiling of total / per_page; a page has at most per_page tasks and a    *)
(* page past total_pages none; has_next says that a later page has tasks,  *)
(* has_prev that page > 1; the list passed is left as it was.              *)
(***************************************************************************)
RECURSIVE JoinPages(_, _, _)
JoinPages(tasks, per_page, k) ==
    IF k = 0 THEN <<>>
    ELSE JoinPages(tasks, per_page, k - 1) \o paginate_tasks(tasks, k, per_page).tasks

\* the least k with k * d >= n
CeilDiv(n, d) == CHOOSE k \in 0..n : k * d >= n /\ \A j \in 0..n : j * d >= n => k <= j

IdsOn(tasks, per_page, k) ==
    {t.id : t \in Elements(paginate_tasks(tasks, k, per_page).tasks)}

C25_PagesPartitionTheList ==
    resp.kind = "paginate_tasks" =>
        LET r == resp.data[1]
            tasks == resp.input.tasks
            page == resp.input.page
            per_page == resp.input.per_page
        IN  /\ r.total = Len(tasks)
            /\ r.total_pages = CeilDiv(Len(tasks), per_page)
            /\ JoinPages(tasks, per_page, r.total_pages) = tasks
            /\ \A j, k \in 1..r.total_pages :
                  j # k => IdsOn(tasks, per_page, j) \cap IdsOn(tasks, per_page, k) = {}
            /\ Len(r.tasks) <= per_page
            /\ page > r.total_pages => r.tasks = <<>>
            /\ r.has_next <=>
                  \E k \in (page + 1)..(Len(tasks) + 1) :
                      paginate_tasks(tasks, k, per_page).tasks # <<>>
            /\ r.has_prev <=> page > 1
            /\ store = tasks

\* the second of two pages of one task each
C25_Witness ==
    /\ resp.kind = "paginate_tasks"
    /\ resp.input.page = 2 /\ resp.input.per_page = 1
    /\ Len(store) = 2
    /\ resp.data[1].tasks = <<store[2]>>
    /\ resp.data[1].has_prev /\ ~resp.data[1].has_next

(***************************************************************************)
(* SpecTasksConc: flask-cicd with create_task and delete_task requests of  *)
(* several workers interleaved call by call: the query, the commit, the    *)
(* count and the redis_client.set of a request are separate steps.         *)
(***************************************************************************)
\* one call of create_task or delete_task; fault is the outcome of the
\* redis_client.set when that is the call
FcStep(w, fr, t, fault) ==
    LET goes(pc) == [fr EXCEPT !.pc = pc]
        ends(status) == [fr EXCEPT !.pc = "done", !.status = status]
    IN  CASE fr.pc = "fc_query" ->
               [w |-> w,
                fr |-> IF QueryGet(w.store, fr.id) = {} THEN ends(500)
                       ELSE goes("fc_commit")]
          [] fr.pc = "fc_commit" /\ fr.kind = "create_task" ->
               [w |-> [w EXCEPT !.store = Append(@, [id |-> w.nextId, title |-> fr.name,
                                                     description |-> "",
                                                     completed |-> FALSE,
                                                     created_at |-> t]),
                                !.nextId = @ + 1],
                fr |-> [goes("fc_count") EXCEPT !.id = w.nextId]]
          [] fr.pc = "fc_commit" /\ fr.kind = "delete_task" ->
               IF QueryGet(w.store, fr.id) = {}
               THEN [w |-> w, fr |-> ends(500)]
               ELSE [w |-> [w EXCEPT !.store =
                               SelectSeq(@, LAMBDA row : row.id # fr.id)],
                     fr |-> goes("fc_count")]
          [] fr.pc = "fc_count" ->
               [w |-> w, fr |-> [goes("fc_set") EXCEPT !.data = <<Len(w.store)>>]]
          [] fr.pc = "fc_set" ->
               IF fault = "raise"
               THEN [w |-> w, fr |-> ends(500)]
               ELSE [w |-> [w EXCEPT !.cache =
                               RedisSet(@, TaskCountKey, BytesOfInt(fr.data[1]))],
                     fr |-> ends(IF fr.kind = "create_task" THEN 201 ELSE 200)]
          [] OTHER -> [w |-> w, fr |-> fr]

\* POST /api/tasks arrives
FcConcStartCreate(r) ==
    /\ app = "flask-cicd"
    /\ reqs[r] = Idle
    /\ nextId + Cardinality({x \in Slots : reqs[x].pc = "fc_commit"
                                            /\ reqs[x].kind = "create_task"}) <= MaxItems
    /\ \E title \in Names :
          reqs' = [reqs EXCEPT ![r] = NewFrame("create_task", 0, 0, 0, title, "fc_commit")]
    /\ UNCHANGED <<store, nextId, cache, now, resp, missedInval, app>>

\* DELETE /api/tasks/<task_id> arrives
FcConcStartDelete(r) ==
    /\ app = "flask-cicd"
    /\ reqs[r] = Idle
    /\ \E task_id \in Ids :
          reqs' = [reqs EXCEPT ![r] = NewFrame("delete_task", 0, 0, task_id, "", "fc_query")]
    /\ UNCHANGED <<store, nextId, cache, now, resp, missedInval, app>>

\* request r makes its next call
FcConcStep(r) ==
    /\ reqs[r].pc \notin {"idle", "done"}
    /\ \E fault \in Outcomes :
          /\ fault = "raise" => reqs[r].pc = "fc_set"
          /\ LET s == FcStep(TheWorld, reqs[r], now, fault)
             IN  /\ cache' = s.w.cache
                 /\ store' = s.w.store
                 /\ nextId' = s.w.nextId
                 /\ reqs' = [reqs EXCEPT ![r] = s.fr]
    /\ UNCHANGED <<now, resp, missedInval, app>>

NextTasksConc ==
    \E r \in Slots :
        FcConcStartCreate(r) \/ FcConcStartDelete(r) \/ FcConcStep(r) \/ ConcFinish(r)

SpecTasksConc == InitTasks /\ [][NextTasksConc]_vars

(***************************************************************************)
(* C26: while no request is in flight, a cached 'task_count' equals the    *)
(* number of rows, and GET /api/stats reports that number as total_tasks   *)
(* and no negative pending_tasks.                                          *)
(***************************************************************************)
StatsNow == fc_get_stats(store, nextId, cache, FcAllOk).data[1]

C26_CachedCountIsRowCount ==
    Quiescent =>
        /\ TaskCountKey \in DOMAIN cache =>
               IntOfBytes(cache[TaskCountKey].val) = Len(store)
        /\ StatsNow.total_tasks = Len(store)
        /\ StatsNow.pending_tasks >= 0

\* no request in flight, and the cached count is not the number of rows
C26_StaleCount ==
    /\ Quiescent
    /\ TaskCountKey \in DOMAIN cache
    /\ IntOfBytes(cache[TaskCountKey].val) # Len(store)

(***************************************************************************)
(* fastapi-api: users kept in the module-level list users_db.  In SpecApi  *)
(* the variable store holds users_db.                                      *)
(***************************************************************************)
Tokens == {"valid-token", "other"}

\* verify_token
verify_token(token) == token = "valid-token"

\* next((u for u in users_db if u.id == user_id), None), as the indexes found
FindUser(users_db, user_id) == {i \in 1..Len(users_db) : users_db[i].id = user_id}

\* startup_event of fastapi-api: two sample users
api_startup_event(t) ==
    <<User(1, "John Doe", "john@example.com", t),
      User(2, "Jane Smith", "jane@example.com", t)>>

ApiResult(users_db, status, data) ==
    [users_db |-> users_db, status |-> status, data |-> data]

\* create_user: the id is the length of the list plus one
api_create_user(users_db, token, user, t) ==
    IF ~verify_token(token) THEN ApiResult(users_db, 401, <<>>)
    ELSE IF ~UserCreateOk(user) THEN ApiResult(users_db, 422, <<>>)
    ELSE IF \E i \in 1..Len(users_db) : users_db[i].email = user.email
    THEN ApiResult(users_db, 400, <<>>)
    ELSE LET new_user == User(Len(users_db) + 1, user.name, user.email, t)
         IN  ApiResult(Append(users_db, new_user), 201, <<new_user>>)

\* get_user: the first user of the list with this id
api_get_user(users_db, token, user_id) ==
    IF ~verify_token(token) THEN ApiResult(users_db, 401, <<>>)
    ELSE IF FindUser(users_db, user_id) = {} THEN ApiResult(users_db, 404, <<>>)
    ELSE ApiResult(users_db, 200,
                   <<users_db[CHOOSE i \in FindUser(users_db, user_id) :
                                 \A j \in FindUser(users_db, user_id) : i <= j]>>)

\* delete_user: every user with this id leaves the list
api_delete_user(users_db, token, user_id) ==
    IF ~verify_token(token) THEN ApiResult(users_db, 401, <<>>)
    ELSE IF FindUser(users_db, user_id) = {} THEN ApiResult(users_db, 404, <<>>)
    ELSE ApiResult(SelectSeq(users_db, LAMBDA u : u.id # user_id), 200,
                   <<"User deleted successfully">>)

(***************************************************************************)
(* SpecApi: fastapi-api after its startup, one request at a time           *)
(***************************************************************************)
ApiIds == 1..(Len(api_startup_event(0)) + MaxItems)

ApiAnswered(kind, id, input, r) ==
    Answered(kind, id, input, r.users_db, nextId, r.status, r.data)

\* POST /users
ApiCreateUser ==
    /\ app = "fastapi-api"
    /\ Len(store) < Len(api_startup_event(0)) + MaxItems
    /\ \E token \in Tokens, user \in UserBodies :
          ApiAnswered("create_user", 0, user,
                      api_create_user(store, token, user, now))

\* GET /users/{user_id}
ApiGetUser ==
    /\ app = "fastapi-api"
    /\ \E token \in Tokens, user_id \in ApiIds :
          ApiAnswered("get_user", user_id, NoBody, api_get_user(store, token, user_id))

\* DELETE /users/{user_id}
ApiDeleteUser ==
    /\ app = "fastapi-api"
    /\ \E token \in Tokens, user_id \in ApiIds :
          ApiAnswered("delete_user", user_id, NoBody,
                      api_delete_user(store, token, user_id))

InitApi ==
    /\ app = "fastapi-api"
    /\ store = api_startup_event(0)
    /\ nextId = 1
    /\ cache = EmptyCache
    /\ now = 0
    /\ resp = NoResp
    /\ missedInval = FALSE
    /\ reqs = [r \in 1..MaxReqs |-> Idle]

NextApi == ApiCreateUser \/ ApiGetUser \/ ApiDeleteUser \/ Deliver

SpecApi == InitApi /\ [][NextApi]_vars

(***************************************************************************)
(* C27: no two users in users_db have the same id, and the user created    *)
(* with an id is the only one that has it.                                 *)
(***************************************************************************)
C27_IdsUnique ==
    /\ \A i, j \in 1..Len(store) : store[i].id = store[j].id => i = j
    /\ (resp.kind = "create_user" /\ resp.status = 201) =>
           \A i \in FindUser(store, resp.data[1].id) : store[i] = resp.data[1]

\* a user was created with the id of a user that is in the list
C27_IdReused ==
    /\ resp.kind = "create_user" /\ resp.status = 201
    /\ Cardinality(FindUser(store, resp.data[1].id)) = 2

(***************************************************************************)
(* SpecEmail: POST /users requests with valid bodies, interleaved call by  *)
(* call, in flask-postgres (query by email, then commit) or in             *)
(* 02-flask-advanced (INSERT, then commit, on SQLite, whose write lock     *)
(* makes the INSERT of another connection wait for the commit).  The       *)
(* column email is UNIQUE in both.                                         *)
(***************************************************************************)
EmailApps == {"flask-postgres", "02-flask-advanced"}

UserFrame(email, pc) ==
    [kind |-> "create_user", email |-> email, id |-> 0, pc |-> pc, status |-> 0]

\* one call of create_user
EmailStep(w, fr) ==
    LET ends(status) == [fr EXCEPT !.pc = "done", !.status = status]
        taken == FilterByEmail(w.store, fr.email) # {}
        inserted == [w EXCEPT !.store = Append(@, [id |-> w.nextId, name |-> "A",
                                                   email |-> fr.email]),
                              !.nextId = @ + 1]
    IN  CASE fr.pc = "pg_query" ->
               [w |-> w, fr |-> IF taken THEN ends(409)
                                ELSE [fr EXCEPT !.pc = "pg_commit"]]
          [] fr.pc = "pg_commit" ->
               \* the IntegrityError of the commit is an Exception: rollback, 500
               IF taken
               THEN [w |-> [w EXCEPT !.nextId = @ + 1], fr |-> ends(500)]
               ELSE [w |-> inserted, fr |-> [ends(201) EXCEPT !.id = w.nextId]]
          [] fr.pc = "fa_insert" ->
               \* `except sqlite3.IntegrityError` answers 409
               IF taken
               THEN [w |-> w, fr |-> ends(409)]
               ELSE [w |-> w, fr |-> [fr EXCEPT !.pc = "fa_commit", !.id = w.nextId]]
          [] fr.pc = "fa_commit" ->
               [w |-> inserted, fr |-> ends(201)]
          [] OTHER -> [w |-> w, fr |-> fr]

\* POST /users arrives
EmailStart(r) ==
    /\ reqs[r] = Idle
    /\ nextId + Cardinality({x \in Slots : reqs[x].pc \notin {"idle", "done"}}) <= MaxItems + 1
    /\ \E email \in Emails :
          reqs' = [reqs EXCEPT ![r] =
                      UserFrame(email, IF app = "flask-postgres" THEN "pg_query"
                                       ELSE "fa_insert")]
    /\ UNCHANGED <<store, nextId, cache, now, resp, missedInval, app>>

\* request r makes its next call; an INSERT waits while another connection
\* holds the write lock
EmailConcStep(r) ==
    /\ reqs[r].pc \notin {"idle", "done"}
    /\ reqs[r].pc = "fa_insert" => \A x \in Slots : reqs[x].pc # "fa_commit"
    /\ LET s == EmailStep(TheWorld, reqs[r])
       IN  /\ store' = s.w.store
           /\ nextId' = s.w.nextId
           /\ reqs' = [reqs EXCEPT ![r] = s.fr]
    /\ UNCHANGED <<cache, now, resp, missedInval, app>>

InitEmail == \E a \in EmailApps : InitApp(a)

NextEmail == \E r \in Slots : EmailStart(r) \/ EmailConcStep(r) \/ ConcFinish(r)

SpecEmail == InitEmail /\ [][NextEmail]_vars

(***************************************************************************)
(* C28: no two stored users have the same email; every POST /users with a  *)
(* valid body ends in 201, and then its user is stored, or in 409, never   *)
(* in 500.                                                                 *)
(***************************************************************************)
C28_OneCreatedOtherConflict ==
    /\ \A i, j \in 1..Len(store) : store[i].email = store[j].email => i = j
    /\ \A r \in Slots :
          reqs[r].pc = "done" =>
              /\ reqs[r].status \in {201, 409}
              /\ reqs[r].status = 201 =>
                    \E i \in FilterByEmail(store, reqs[r].email) :
                        store[i].id = reqs[r].id

\* two requests with the same email: one answered 201, the other 500
C28_LoserGot500 ==
    \E r1, r2 \in Slots :
        /\ reqs[r1].pc = "done" /\ reqs[r2].pc = "done"
        /\ reqs[r1].email = reqs[r2].email
        /\ reqs[r1].status = 201 /\ reqs[r2].status = 500

(***************************************************************************)
(* SpecFailed: fastapi-cicd (with the refresh after a commit raising) or   *)
(* fastapi-redis, one request at a time                                    *)
(***************************************************************************)
InitFailed == Init \/ InitRedis

NextFailed == (app = "fastapi-cicd" /\ NextLate) \/ NextRedis

SpecFailed == InitFailed /\ [][NextFailed]_vars

\* the "user:{id}" keys of a Redis
UserKeys(c) == {k \in DOMAIN c : \E user_id \in FrIds : k = UserKey(user_id)}

\* the step is a create request answered with status 500
CreateFailed ==
    /\ resp = NoResp
    /\ resp' # NoResp
    /\ resp'.kind = (IF app = "fastapi-cicd" THEN "create_item" ELSE "create_user")
    /\ resp'.status = 500

(***************************************************************************)
(* C29: a create request answered with 500 leaves the store as it was: in  *)
(* fastapi-cicd the items table has the rows it had before the request, in *)
(* fastapi-redis the "user:{id}" keys are the ones present before it.      *)
(***************************************************************************)
C29_FailedCreateLeavesStore ==
    [][CreateFailed =>
          IF app = "fastapi-cicd"
          THEN store' = store
          ELSE UserKeys(cache') = UserKeys(cache)]_vars

\* a create answered 500 whose commit (fastapi-cicd) or set (fastapi-redis)
\* had succeeded
C29_StoredYet500 ==
    /\ resp # NoResp
    /\ resp.kind \in {"create_item", "create_user"}
    /\ resp.status = 500
    /\ \E i \in 1..Len(resp.ops) :
          resp.ops[i].op \in {"commit", "set"} /\ resp.ops[i].ok

====
